---- MODULE Spec2Model ----
(***************************************************************************)
(* A model of broot's tree builder (src/tree_build/builder.rs) and of the  *)
(* browser state that owns the base tree and the filtered overlay          *)
(* (src/browser/browser_state.rs).                                         *)
(*                                                                         *)
(* Two specifications:                                                     *)
(*   SpecBuild  one TreeBuilder::build call on a directory fixture, with   *)
(*              its inputs drawn in the initial state;                     *)
(*   Spec       a BrowserState from BrowserState::new on, receiving        *)
(*              intents and running do_pending_task, whose builds are the  *)
(*              same builder steps.                                        *)
(***************************************************************************)
EXTENDS Integers, Sequences, FiniteSets, TLC

\* ------------------------------------------------------------------ bounds

\* the fixtures 1..NbFixtures of Fixtures are explored
NbFixtures == 5
\* targeted_size (the page height) ranges over 0..MaxTargetedSize
MaxTargetedSize == 4
\* a BrowserState is made on the fixtures 1..NbStateFixtures
NbStateFixtures == 2
\* with a page height in 0..MaxPageHeight
MaxPageHeight == 2
\* the directory deep of the last fixture holds NbDeepFiles files
NbDeepFiles == 6
\* and is built with this targeted_size
DeepTargetedSize == 5

\* ------------------------------------------------------- Option<T> values

None == <<>>
Some(x) == <<x>>
IsSome(o) == o # <<>>
Unwrap(o) == o[1]

Range(s) == {s[i] : i \in DOMAIN s}

Last(s) == s[Len(s)]

\* ---------------------------------------------------------------- fixtures
\* A fixture is a sequence of file-system nodes; node 1 is the directory the
\* tree is rooted at.  A name is the sequence of its bytes (97 = 'a',
\* 65 = 'A', 46 = '.'); entries is the order in which read_dir lists a
\* directory; content is the set of needles found in a file's content.

Dir(name, entries) ==
    [name |-> name, kind |-> "dir", entries |-> entries, content |-> {},
     special |-> "Normal", readable |-> TRUE, ignored |-> FALSE, interesting |-> TRUE]

File(name, content) ==
    [name |-> name, kind |-> "file", entries |-> <<>>, content |-> content,
     special |-> "Normal", readable |-> TRUE, ignored |-> FALSE, interesting |-> TRUE]

\* x/{deep/{ba, bb, bc, ...}}: NbDeepFiles files that all patterns score alike
DeepFixture ==
    << Dir(<<120>>, <<2>>), Dir(<<100, 101, 101, 112>>, [i \in 1..NbDeepFiles |-> i + 2]) >>
    \o [i \in 1..NbDeepFiles |-> File(<<98, 96 + i>>, {"n"})]

Fixtures == <<
    \* 1: x/{a, b, sub/{c}}
    << Dir(<<120>>, <<2, 3, 4>>), File(<<97>>, {"n"}), File(<<98>>, {}),
       Dir(<<115, 117, 98>>, <<5>>), File(<<99>>, {"n"}) >>,
    \* 2: x/{e, d/{b}}, listed by read_dir as e, d
    << Dir(<<120>>, <<2, 3>>), File(<<101>>, {"n"}), Dir(<<100>>, <<4>>),
       File(<<98>>, {"n"}) >>,
    \* 3: x/{deep/{ab, b, cb, B}}
    << Dir(<<120>>, <<2>>), Dir(<<100, 101, 101, 112>>, <<6, 3, 4, 5>>),
       File(<<97, 98>>, {"n"}), File(<<98>>, {"n"}), File(<<99, 98>>, {"n"}),
       File(<<66>>, {}) >>,
    \* 4: x/{A/{d/{b}}, c/{}, .h} where c cannot be entered
    << Dir(<<120>>, <<3, 2, 6>>), Dir(<<65>>, <<4>>),
       [Dir(<<99>>, <<>>) EXCEPT !.special = "NoEnter"],
       Dir(<<100>>, <<5>>), File(<<98>>, {"n"}), File(<<46, 104>>, {}) >>,
    \* 5: x/{b/, a/{b}, u/} where u cannot be read and a/b is not interesting to git
    << Dir(<<120>>, <<2, 3, 5>>), Dir(<<98>>, <<>>), Dir(<<97>>, <<4>>),
       [File(<<98>>, {}) EXCEPT !.interesting = FALSE],
       [Dir(<<117>>, <<>>) EXCEPT !.readable = FALSE] >>,
    \* 6: x/{a/{b, c}, b/{b, a}}
    << Dir(<<120>>, <<2, 3>>), Dir(<<97>>, <<4, 5>>), Dir(<<98>>, <<6, 7>>),
       File(<<98>>, {"n"}), File(<<99>>, {}), File(<<98>>, {}), File(<<97>>, {"n"}) >>,
    \* 7: x/{deep/{ba, bb, bc, ...}}
    DeepFixture
>>

\* ---------------------------------------------------------------- patterns
\* An InputPattern is the raw input and the pattern made of it.  The model
\* has the empty pattern, a name pattern (real scores) looking for the byte
\* 'b', and a content pattern (scores 0 or 1) looking for the needle "n".

NonePattern == [raw |-> "", kind |-> "None"]

Patterns ==
    {NonePattern, [raw |-> "b", kind |-> "Name"], [raw |-> "c/n", kind |-> "Content"]}

\* InputPattern::is_some
PatternIsSome(pat) == pat.kind # "None"

\* ContentExactPattern::score_of: only regular files whose content holds the needle
ContentScoreOf(node) ==
    IF node.kind # "file" THEN None
    ELSE IF "n" \in node.content THEN Some(1) ELSE None

\* the score a name pattern gives: better when the byte comes early in a short name
NameScoreOf(node) ==
    LET hits == {i \in DOMAIN node.name : node.name[i] \in {98, 66}}
    IN  IF hits = {} THEN None
        ELSE Some(100 - 10 * ((CHOOSE i \in hits : \A j \in hits : i <= j) - 1)
                      - Len(node.name))

\* Pattern::score_of
ScoreOf(pat, node) ==
    CASE pat.kind = "None" -> Some(1)
      [] pat.kind = "Name" -> NameScoreOf(node)
      [] pat.kind = "Content" -> ContentScoreOf(node)

\* ------------------------------------------------------------------- names

\* str::to_lowercase on the bytes of a name
ToLowercase(name) ==
    [i \in DOMAIN name |-> IF name[i] >= 65 /\ name[i] <= 90 THEN name[i] + 32 ELSE name[i]]

\* a < b in the lexicographic order of byte strings (Ord for String)
RECURSIVE StrLess(_, _)
StrLess(a, b) ==
    IF b = <<>> THEN FALSE
    ELSE IF a = <<>> THEN TRUE
    ELSE IF a[1] # b[1] THEN a[1] < b[1]
    ELSE StrLess(Tail(a), Tail(b))

\* stable insertion of child id x into ids, already sorted by lowercase name
InsertByName(nodes, ids, x) ==
    LET ahead == {i \in DOMAIN ids :
                     ~StrLess(ToLowercase(nodes[x].name), ToLowercase(nodes[ids[i]].name))}
        k == Cardinality(ahead)
    IN  SubSeq(ids, 1, k) \o <<x>> \o SubSeq(ids, k + 1, Len(ids))

\* children left in the order read_dir gave them
Unsorted(nodes, ids) == ids

\* children.sort_by(|a, b| a.name.to_lowercase().cmp(b.name.to_lowercase())), a stable sort
RECURSIVE SortByName(_, _)
SortByName(nodes, ids) ==
    IF ids = <<>> THEN <<>>
    ELSE InsertByName(nodes, SortByName(nodes, SubSeq(ids, 1, Len(ids) - 1)), Last(ids))

\* ----------------------------------------------------------------- options

TreeOptions ==
    [show_hidden : BOOLEAN, only_folders : BOOLEAN, respect_git_ignore : BOOLEAN,
     filter_by_git_status : BOOLEAN, sort : BOOLEAN, trim_root : BOOLEAN,
     pattern : Patterns]

DefaultOptions ==
    [show_hidden |-> FALSE, only_folders |-> FALSE, respect_git_ignore |-> FALSE,
     filter_by_git_status |-> FALSE, sort |-> FALSE, trim_root |-> FALSE,
     show_sizes |-> FALSE, pattern |-> NonePattern]

\* the options a build is started with: the default ones with one of them changed
OptionChoices ==
    {DefaultOptions,
     [DefaultOptions EXCEPT !.show_hidden = TRUE],
     [DefaultOptions EXCEPT !.only_folders = TRUE],
     [DefaultOptions EXCEPT !.respect_git_ignore = TRUE],
     [DefaultOptions EXCEPT !.filter_by_git_status = TRUE],
     [DefaultOptions EXCEPT !.sort = TRUE],
     [DefaultOptions EXCEPT !.trim_root = TRUE]}

\* the options a BrowserState is made with
StateOptionChoices ==
    {DefaultOptions, [DefaultOptions EXCEPT !.filter_by_git_status = TRUE],
     [DefaultOptions EXCEPT !.trim_root = TRUE]}

\* ------------------------------------------------------------------ BLines

\* BLine::from_root: the line of the root directory
RootBLine ==
    [parent_id |-> None, depth |-> 0, file_type |-> "dir", children |-> None,
     next_child_idx |-> 0, has_error |-> FALSE, has_match |-> TRUE,
     direct_match |-> FALSE, score |-> 0, nb_kept_children |-> 0,
     special_handling |-> "Normal"]

\* BLine::can_enter
CanEnter(bline) == bline.file_type = "dir" /\ bline.special_handling # "NoEnter"

\* TreeBuilder::from
TreeBuilderFrom(path, options, targeted_size, in_repo) ==
    [options |-> options,
     targeted_size |-> targeted_size,
     blines |-> (path :> RootBLine),
     root_id |-> path,
     total_search |-> TRUE,
     line_status_computer |-> (options.filter_by_git_status /\ in_repo),
     trim_root |-> (PatternIsSome(options.pattern)
                    \/ (options.trim_root /\ ~options.sort))]

\* a file is a line as soon as it matches
FileRetainedOnMatch(b, has_match) == has_match

\* the test of make_line on files and symbolic links (lines 158-165)
FileRetained(b, has_match) == has_match /\ ~b.options.only_folders

\* TreeBuilder::make_line for entry e of directory parent_id: the BLine, or None
MakeLine(nodes, b, parent_id, e, depth) ==
    LET node == nodes[e]
        pattern_score == ScoreOf(b.options.pattern, node)
        direct_match == IsSome(pattern_score)
        score == (10000 - depth)
                 + (IF direct_match THEN Unwrap(pattern_score) + 10 ELSE 0)
        has_match == direct_match
                     /\ ~(b.options.filter_by_git_status /\ b.line_status_computer
                          /\ ~node.interesting)
    IN  IF node.name = <<>> THEN None
        ELSE IF ~b.options.show_hidden /\ node.name[1] = 46 THEN None
        ELSE IF node.kind \in {"file", "symlink"} /\ ~FileRetained(b, has_match) THEN None
        ELSE IF node.special = "Hide" THEN None
        ELSE IF b.options.respect_git_ignore /\ node.ignored THEN None
        ELSE Some([parent_id |-> Some(parent_id), depth |-> depth,
                   file_type |-> node.kind, children |-> None, next_child_idx |-> 0,
                   has_error |-> FALSE, has_match |-> has_match,
                   direct_match |-> direct_match, score |-> score,
                   nb_kept_children |-> 0, special_handling |-> node.special])

\* TreeBuilder::load_children: the arena after the children of bid are loaded,
\* and whether one of them matches
LoadChildren(nodes, b, bid) ==
    IF ~nodes[bid].readable
    THEN [blines |-> [b.blines EXCEPT ![bid].has_error = TRUE,
                                      ![bid].children = Some(<<>>)],
          has_child_match |-> FALSE]
    ELSE
    LET entries == nodes[bid].entries
        child_depth == b.blines[bid].depth + 1
        made == [i \in DOMAIN entries |-> MakeLine(nodes, b, bid, entries[i], child_depth)]
        kept == SelectSeq(entries, LAMBDA e : IsSome(MakeLine(nodes, b, bid, e, child_depth)))
        has_child_match == \E i \in DOMAIN made : IsSome(made[i]) /\ Unwrap(made[i]).has_match
        children == SortByName(nodes, kept)
        allocated == [id \in Range(kept) |->
                        Unwrap(MakeLine(nodes, b, bid, id, child_depth))]
        parent == [b.blines[bid] EXCEPT
                     !.has_match = IF has_child_match THEN TRUE ELSE @,
                     !.children = Some(children)]
    IN  [blines |-> allocated @@ (bid :> parent) @@ b.blines,
         has_child_match |-> has_child_match]

\* an ancestors loop that stops at the directory that was loaded
MarkDirectoryOnly(blines, id) ==
    [blines |-> [blines EXCEPT ![id].has_match = TRUE],
     toggled |-> IF blines[id].has_match THEN 0 ELSE 1]

\* the ancestors loop of gather_lines (lines 328-340): every line from id up to
\* the root is made matching; toggled counts the lines that were not
RECURSIVE MarkAncestors(_, _)
MarkAncestors(blines, id) ==
    LET toggled == IF blines[id].has_match THEN 0 ELSE 1
        marked == [blines EXCEPT ![id].has_match = TRUE]
    IN  IF IsSome(blines[id].parent_id)
        THEN LET up == MarkAncestors(marked, Unwrap(blines[id].parent_id))
             IN  [blines |-> up.blines, toggled |-> toggled + up.toggled]
        ELSE [blines |-> marked, toggled |-> toggled]

\* ------------------------------------------------------------------- state

VARIABLES
    fx,                    \* the fixture: the file system the trees are built on
    builder,               \* the TreeBuilder of the running build
    total_search,          \* the total_search argument of build
    out_blines,            \* gather_lines: the ids of the gathered lines
    nb_lines_ok,           \* gather_lines: the count of matching gathered lines
    open_dirs,             \* gather_lines: the queue of directories being emitted
    next_level_dirs,       \* gather_lines: the directories of the next depth
    dir_idx,               \* gather_lines: position in the loop over next_level_dirs
    count,                 \* trim_excess: the number of matching lines
    remove_queue,          \* trim_excess: the ids in the removal heap
    built,                 \* what build returned: Some(tree), or None when cancelled
    pc,                    \* the position of the running build
    dam,                   \* whether the dam of the running build has an event
    unlimited,             \* whether that dam is Dam::unlimited()
    elapsed,               \* whether start.elapsed() > NOT_LONG
    limit,                 \* BrootSearchLimit: "unset", "running" or "passed"
    batch_signal,          \* history: the dam got its event while a batch was processed
    task,                  \* who runs the build: "build", "new", "search", or nobody
    tree,                  \* BrowserState.tree, as Option: None before new returns
    filtered_tree,         \* BrowserState.filtered_tree
    pending_pattern,       \* BrowserState.pending_pattern
    total_search_required, \* BrowserState.total_search_required
    page_height,           \* BrowserState::page_height(screen)
    last,                  \* history: the last operation on the state and its result
    before,                \* history: the state when the last do_pending_task or back began
    installs,              \* history: overlays installed since the last submission
    completed,             \* history: the pattern of the last build that was not cancelled
    first_run,             \* history: what the first of two builds on the same inputs returned
    opened,                \* what open_selection_stay_in_broot makes: None until it is called
    total_for,             \* history: the pattern total_search was accepted for
    dropped,               \* history: back dropped the overlay and no pattern came since
    input_field,           \* PanelInput.input_field: the content of the input
    tab_cycle_count,       \* PanelInput.tab_cycle_count
    input_before_cycle,    \* PanelInput.input_before_cycle
    returned,              \* history: the last event, the input before it, the command made
    run                    \* history: the TAB keys received since the last other key

build_vars ==
    <<builder, total_search, out_blines, nb_lines_ok, open_dirs, next_level_dirs,
      dir_idx, count, remove_queue, built>>

env_vars == <<dam, unlimited, elapsed, limit, batch_signal>>

state_vars == <<tree, filtered_tree, pending_pattern, total_search_required>>

hist_vars == <<last, before, installs, completed>>

input_vars == <<input_field, tab_cycle_count, input_before_cycle, returned, run>>

vars ==
    <<fx, build_vars, pc, env_vars, task, state_vars, page_height, hist_vars, first_run,
      opened, total_for, dropped, input_vars>>

nodes == Fixtures[fx]

\* the directory of the fixture that lists node n
FsParent(n) == CHOOSE p \in DOMAIN nodes : n \in Range(nodes[p].entries)

\* the path of node n: the names of the directories from the root down to it
RECURSIVE PathOf(_)
PathOf(n) == IF n = 1 THEN <<>> ELSE Append(PathOf(FsParent(n)), nodes[n].name)

\* -------------------------------------------------------------- gather_lines

\* the first lines of gather_lines (263-283): the root is loaded and opened
GatherLinesBegin ==
    /\ pc = "start"
    /\ builder' = [builder EXCEPT
                     !.blines = LoadChildren(nodes, builder, builder.root_id).blines]
    /\ out_blines' = <<builder.root_id>>
    /\ nb_lines_ok' = 1
    /\ open_dirs' = <<builder.root_id>>
    /\ next_level_dirs' = <<>>
    /\ pc' = "gather"
    /\ UNCHANGED <<fx, input_vars, dropped, total_for, first_run, opened, total_search, dir_idx, count, remove_queue, built, env_vars,
                   task, state_vars, page_height, hist_vars>>

OptimalSize(b) ==
    IF b.options.pattern.kind = "Name" THEN 10 * b.targeted_size ELSE b.targeted_size

\* an early exit that a total search takes too
EarlyExitOfTotalSearch(b, total, nb_ok, long) ==
    nb_ok > OptimalSize(b) \/ (nb_ok >= b.targeted_size /\ long)

\* an early exit that the NOT_LONG delay alone decides
EarlyExitOnTime(b, total, nb_ok, long) ==
    ~total /\ (nb_ok > OptimalSize(b) \/ long)

\* the condition of the bounded early exit (lines 285-288)
EarlyExit(b, total, nb_ok, long) ==
    ~total /\ (nb_ok > OptimalSize(b) \/ (nb_ok >= b.targeted_size /\ long))

\* TreeBuilder::next_child
NextChild(blines, parent_id) ==
    LET bline == blines[parent_id]
        children == Unwrap(bline.children)
    IN  IF bline.next_child_idx < Len(children)
        THEN [child |-> Some(children[bline.next_child_idx + 1]),
              blines |-> [blines EXCEPT ![parent_id].next_child_idx = @ + 1]]
        ELSE [child |-> None, blines |-> blines]

\* a sort mode that goes deeper
SeveralLevels(b) == FALSE

\* in sort mode only one level is displayed (lines 306-309)
OneLevelOnly(b) == b.options.sort

\* a queue in which the directory that gave a child stays first
PushFront(queue, id) == <<id>> \o queue

\* open_dirs.push_back (line 294)
PushBack(queue, id) == Append(queue, id)

\* one iteration of the loop of gather_lines that does not go deeper (lines 284-319)
GatherLoop ==
    /\ pc = "gather"
    /\ IF EarlyExit(builder, total_search, nb_lines_ok, elapsed)
       THEN /\ builder' = [builder EXCEPT !.total_search = FALSE]
            /\ pc' = "gathered"
            /\ UNCHANGED <<out_blines, nb_lines_ok, open_dirs, next_level_dirs, dir_idx>>
       ELSE IF open_dirs # <<>>
       THEN LET open_dir_id == Head(open_dirs)
                nc == NextChild(builder.blines, open_dir_id)
            IN  /\ builder' = [builder EXCEPT !.blines = nc.blines]
                /\ pc' = "gather"
                /\ dir_idx' = dir_idx
                /\ IF IsSome(nc.child)
                   THEN LET child_id == Unwrap(nc.child)
                            child == builder.blines[child_id]
                        IN  /\ open_dirs' = PushBack(Tail(open_dirs), open_dir_id)
                            /\ nb_lines_ok' = nb_lines_ok + (IF child.has_match THEN 1 ELSE 0)
                            /\ next_level_dirs' = IF CanEnter(child)
                                                  THEN Append(next_level_dirs, child_id)
                                                  ELSE next_level_dirs
                            /\ out_blines' = Append(out_blines, child_id)
                   ELSE /\ open_dirs' = Tail(open_dirs)
                        /\ UNCHANGED <<nb_lines_ok, next_level_dirs, out_blines>>
       ELSE /\ pc' = IF OneLevelOnly(builder) \/ next_level_dirs = <<>> \/ limit = "passed"
                     THEN "gathered" ELSE "deeper"
            /\ dir_idx' = 1
            /\ UNCHANGED <<builder, out_blines, nb_lines_ok, open_dirs, next_level_dirs>>
    /\ UNCHANGED <<fx, input_vars, dropped, total_for, first_run, opened, total_search, count, remove_queue, built, env_vars,
                   task, state_vars, page_height, hist_vars>>

\* a poll that takes the NOT_LONG timer for an event
HasEventOrIsLong == dam \/ elapsed

\* dam.has_event(), as gather_lines polls it (line 321)
HasEvent == dam

\* a loop over next_level_dirs that does not look at the dam
PollDamSkipped ==
    /\ pc = "deeper"
    /\ pc' = "loading" /\ built' = built
    /\ UNCHANGED <<fx, input_vars, dropped, total_for, first_run, opened, builder, total_search, out_blines, nb_lines_ok, open_dirs,
                   next_level_dirs, dir_idx, count, remove_queue, env_vars,
                   task, state_vars, page_height, hist_vars>>

\* a loop over next_level_dirs that polls the dam once, before its first
\* directory
PollDamFirstOnly ==
    /\ pc = "deeper"
    /\ IF HasEvent /\ dir_idx = 1
       THEN pc' = "cancelled" /\ built' = None
       ELSE pc' = "loading" /\ built' = built
    /\ UNCHANGED <<fx, input_vars, dropped, total_for, first_run, opened, builder, total_search, out_blines, nb_lines_ok, open_dirs,
                   next_level_dirs, dir_idx, count, remove_queue, env_vars,
                   task, state_vars, page_height, hist_vars>>

\* the poll of the dam before a directory of next_level_dirs is loaded
\* (lines 321-324): with an event, gather_lines returns None and so does build
PollDam ==
    /\ pc = "deeper"
    /\ IF HasEvent
       THEN pc' = "cancelled" /\ built' = None
       ELSE pc' = "loading" /\ built' = built
    /\ UNCHANGED <<fx, input_vars, dropped, total_for, first_run, opened, builder, total_search, out_blines, nb_lines_ok, open_dirs,
                   next_level_dirs, dir_idx, count, remove_queue, env_vars,
                   task, state_vars, page_height, hist_vars>>

\* the rest of one iteration of the loop over next_level_dirs (lines 325-342,
\* and 344 after the last one): the directory is loaded and opened
LoadNextLevelDir ==
    /\ pc = "loading"
    /\ LET id == next_level_dirs[dir_idx]
           lc == LoadChildren(nodes, builder, id)
           ma == IF lc.has_child_match
                 THEN MarkAncestors(lc.blines, id)
                 ELSE [blines |-> lc.blines, toggled |-> 0]
       IN  /\ builder' = [builder EXCEPT !.blines = ma.blines]
           /\ nb_lines_ok' = nb_lines_ok + ma.toggled
           /\ open_dirs' = Append(open_dirs, id)
           /\ IF dir_idx = Len(next_level_dirs)
              THEN next_level_dirs' = <<>> /\ dir_idx' = 1 /\ pc' = "gather"
              ELSE next_level_dirs' = next_level_dirs /\ dir_idx' = dir_idx + 1
                   /\ pc' = "deeper"
    /\ UNCHANGED <<fx, input_vars, dropped, total_for, first_run, opened, total_search, out_blines, count, remove_queue, built, env_vars,
                   task, state_vars, page_height, hist_vars>>

\* the children of the root that next_child has not yet given
RECURSIVE DrainRoot(_, _, _)
DrainRoot(blines, root_id, out) ==
    LET nc == NextChild(blines, root_id)
    IN  IF IsSome(nc.child)
        THEN DrainRoot(nc.blines, root_id, Append(out, Unwrap(nc.child)))
        ELSE [blines |-> blines, out_blines |-> out]

\* the end of gather_lines (lines 347-354): without trim_root the root is drained
GatherLinesEnd ==
    /\ pc = "gathered"
    /\ LET dr == IF ~builder.trim_root
                 THEN DrainRoot(builder.blines, builder.root_id, out_blines)
                 ELSE [blines |-> builder.blines, out_blines |-> out_blines]
       IN  /\ builder' = [builder EXCEPT !.blines = dr.blines]
           /\ out_blines' = dr.out_blines
    /\ pc' = "trim_excess"
    /\ UNCHANGED <<fx, input_vars, dropped, total_for, first_run, opened, total_search, nb_lines_ok, open_dirs, next_level_dirs, dir_idx,
                   count, remove_queue, built, env_vars, task, state_vars,
                   page_height, hist_vars>>

\* --------------------------------------------------------------- trim_excess

\* the lines of out_blines after the root that match
MatchingLines(blines, out) ==
    {i \in 2..Len(out) : blines[out[i]].has_match}

\* a seeding that forgets trim_root: the lines of depth 1 are never removable
RemovableBelowFirstLevel(b, bline) ==
    bline.has_match /\ bline.nb_kept_children = 0 /\ bline.depth > 1

\* whether trim_excess may seed the removal queue with this line (line 376)
Removable(b, bline) ==
    bline.has_match /\ bline.nb_kept_children = 0 /\ (bline.depth > 1 \/ b.trim_root)

\* a push that does not look at the kept children of the parent
PushParentAlways(b, parent) == TRUE

\* whether the parent of a removed line is pushed on the removal queue (line 392)
PushParent(b, parent) == parent.nb_kept_children = 0

\* the first two loops of trim_excess (lines 363-384): the kept children are
\* counted and the removal queue is seeded
TrimExcessBegin ==
    /\ pc = "trim_excess"
    /\ LET matching == MatchingLines(builder.blines, out_blines)
           kept_of(p) == Cardinality({i \in matching :
                                        builder.blines[out_blines[i]].parent_id = Some(p)})
           counted == [id \in DOMAIN builder.blines |->
                         [builder.blines[id] EXCEPT !.nb_kept_children = @ + kept_of(id)]]
           seeds == SelectSeq(Tail(out_blines),
                              LAMBDA id : Removable(builder, counted[id]))
       IN  /\ count' = 1 + Cardinality(matching)
           /\ builder' = [builder EXCEPT !.blines = counted]
           /\ remove_queue' = seeds
    /\ pc' = "trim"
    /\ UNCHANGED <<fx, input_vars, dropped, total_for, first_run, opened, total_search, out_blines, nb_lines_ok, open_dirs,
                   next_level_dirs, dir_idx, built, env_vars, task, state_vars,
                   page_height, hist_vars>>

\* the positions of the removal queue BinaryHeap::pop may give: SortableBId
\* orders by score, reversed, so the worst score comes first
Worst(blines, queue) ==
    {i \in DOMAIN queue :
       \A j \in DOMAIN queue : blines[queue[i]].score <= blines[queue[j]].score}

RemoveAt(s, i) == SubSeq(s, 1, i - 1) \o SubSeq(s, i + 1, Len(s))

\* a trim_excess that leaves one line more than targeted
TrimGoesOnAboveTarget(b, n) == n > b.targeted_size + 1

\* the condition of the while loop of trim_excess (line 385)
TrimGoesOn(b, n) == n > b.targeted_size

\* one iteration of the while loop of trim_excess (lines 385-403)
TrimStep ==
    /\ pc = "trim"
    /\ IF TrimGoesOn(builder, count) /\ remove_queue # <<>>
       THEN \E i \in Worst(builder.blines, remove_queue) :
              LET id == remove_queue[i]
                  cleared == [builder.blines EXCEPT ![id].has_match = FALSE]
              IN  IF ~IsSome(cleared[id].parent_id) \/
                     cleared[Unwrap(cleared[id].parent_id)].next_child_idx = 0
                  THEN \* parent_id.unwrap() on the root, or usize underflow
                       /\ builder' = [builder EXCEPT !.blines = cleared]
                       /\ remove_queue' = RemoveAt(remove_queue, i)
                       /\ pc' = "panic"
                       /\ count' = count
                  ELSE LET parent_id == Unwrap(cleared[id].parent_id)
                           after == [cleared EXCEPT
                                       ![parent_id].nb_kept_children = @ - 1,
                                       ![parent_id].next_child_idx = @ - 1]
                       IN  /\ builder' = [builder EXCEPT !.blines = after]
                           /\ remove_queue' =
                                IF PushParent(builder, after[parent_id])
                                THEN Append(RemoveAt(remove_queue, i), parent_id)
                                ELSE RemoveAt(remove_queue, i)
                           /\ count' = count - 1
                           /\ pc' = "trim"
       ELSE /\ pc' = "take"
            /\ UNCHANGED <<builder, remove_queue, count>>
    /\ UNCHANGED <<fx, input_vars, dropped, total_for, first_run, opened, total_search, out_blines, nb_lines_ok, open_dirs,
                   next_level_dirs, dir_idx, built, env_vars, task, state_vars,
                   page_height, hist_vars>>

\* ---------------------------------------------------------------------- take

\* BLine::to_tree_line
ToTreeLine(id, bline) ==
    [path |-> id, depth |-> bline.depth, file_type |-> bline.file_type,
     has_error |-> bline.has_error, score |-> bline.score,
     direct_match |-> bline.direct_match, sum |-> None,
     unlisted |-> IF IsSome(bline.children)
                  THEN Len(Unwrap(bline.children)) - bline.next_child_idx ELSE 0]

\* a take that forgets to skip the lines that do not match
KeptAll(blines, out) == out

\* the lines take keeps (line 410)
Kept(blines, out) == SelectSeq(out, LAMBDA id : blines[id].has_match)

\* the order of two names in a path: by lowercase name, then by name
ComponentLess(a, b) ==
    IF ToLowercase(a) # ToLowercase(b)
    THEN StrLess(ToLowercase(a), ToLowercase(b))
    ELSE StrLess(a, b)

\* the order of the tree lines: paths are compared name by name, a
\* directory coming before what it holds
RECURSIVE PathLess(_, _)
PathLess(p, q) ==
    IF q = <<>> THEN FALSE
    ELSE IF p = <<>> THEN TRUE
    ELSE IF p[1] # q[1] THEN ComponentLess(p[1], q[1])
    ELSE PathLess(Tail(p), Tail(q))

\* stable insertion of a line into lines already sorted by path
InsertLine(lines, x) ==
    LET ahead == {i \in DOMAIN lines : ~PathLess(PathOf(x.path), PathOf(lines[i].path))}
        k == Cardinality(ahead)
    IN  SubSeq(lines, 1, k) \o <<x>> \o SubSeq(lines, k + 1, Len(lines))

RECURSIVE SortLines(_)
SortLines(lines) ==
    IF lines = <<>> THEN <<>>
    ELSE InsertLine(SortLines(SubSeq(lines, 1, Len(lines) - 1)), Last(lines))

\* Tree::after_lines_changed (called at line 435): the lines after the root
\* are put in the order of the tree
AfterLinesChanged(lines) ==
    IF lines = <<>> THEN <<>> ELSE <<lines[1]>> \o SortLines(Tail(lines))

\* TreeBuilder::take (lines 407-447): the matching lines of out_blines, the
\* children of the kept directories being loaded for their count
TakeTree(b, out) ==
    LET kept == Kept(b.blines, out)
        loaded(id) == IF b.blines[id].file_type = "dir" /\ ~IsSome(b.blines[id].children)
                      THEN LoadChildren(nodes, b, id).blines[id]
                      ELSE b.blines[id]
    IN  [lines |-> AfterLinesChanged(
                     [i \in DOMAIN kept |-> ToTreeLine(kept[i], loaded(kept[i]))]),
         selection |-> 0,
         scroll |-> 0,
         options |-> b.options,
         total_search |-> b.total_search,
         git_status |-> IF b.line_status_computer THEN "NotComputed" ELSE "None"]

\* the end of build (lines 456-457): the tree is made and returned
Take ==
    /\ pc = "take"
    /\ built' = Some(TakeTree(builder, out_blines))
    /\ pc' = "done"
    /\ UNCHANGED <<fx, input_vars, dropped, total_for, first_run, opened, builder, total_search, out_blines, nb_lines_ok, open_dirs,
                   next_level_dirs, dir_idx, count, remove_queue, env_vars, task,
                   state_vars, page_height, hist_vars>>

\* --------------------------------------------------------------- environment

Gathering == pc \in {"start", "gather", "deeper", "loading"}

\* an event reaches the dam of the running build
DamSignal ==
    /\ Gathering
    /\ ~dam /\ ~unlimited
    /\ dam' = TRUE
    /\ batch_signal' = (pc \in {"deeper", "loading"})
    /\ UNCHANGED <<fx, input_vars, dropped, total_for, first_run, opened, build_vars, pc, unlimited, elapsed, limit, task, state_vars,
                   page_height, hist_vars>>

\* NOT_LONG has elapsed since the start of gather_lines
NotLongElapses ==
    /\ Gathering
    /\ ~elapsed
    /\ elapsed' = TRUE
    /\ UNCHANGED <<fx, input_vars, dropped, total_for, first_run, opened, build_vars, pc, dam, unlimited, limit, batch_signal, task, state_vars,
                   page_height, hist_vars>>

\* the BrootSearchLimit has elapsed since the start of gather_lines
LimitElapses ==
    /\ Gathering
    /\ limit = "running"
    /\ limit' = "passed"
    /\ UNCHANGED <<fx, input_vars, dropped, total_for, first_run, opened, build_vars, pc, dam, unlimited, elapsed, batch_signal, task, state_vars,
                   page_height, hist_vars>>

\* ----------------------------------------------------- one build: SpecBuild

\* no event was received yet
NoReturned == [event |-> "none", cmd |-> "none", raw |-> <<>>, modal |-> FALSE,
               mode |-> "Input", content |-> <<>>, count |-> 0, before_cycle |-> None,
               verb_key |-> FALSE]

\* no TAB key was received since the last other key
NoRun == [k |-> 0, base |-> <<>>, list |-> <<>>, steady |-> FALSE]

\* PanelInput::new (lines 28-34)
PanelInputNew ==
    /\ input_field = <<>> /\ tab_cycle_count = 0 /\ input_before_cycle = None
    /\ returned = NoReturned /\ run = NoRun

NoLast == [op |-> "none", result |-> "none", arg |-> NonePattern]

InitBuild ==
    /\ fx \in 1..NbFixtures
    /\ \E options \in OptionChoices, pattern \in Patterns,
          targeted_size \in 0..MaxTargetedSize :
         builder = TreeBuilderFrom(1, [options EXCEPT !.pattern = pattern],
                                   targeted_size, TRUE)
    /\ total_search \in BOOLEAN
    /\ out_blines = <<>> /\ nb_lines_ok = 0 /\ open_dirs = <<>>
    /\ next_level_dirs = <<>> /\ dir_idx = 1 /\ count = 0 /\ remove_queue = <<>>
    /\ built = None
    /\ pc = "start"
    /\ dam = FALSE /\ unlimited \in BOOLEAN /\ elapsed = FALSE /\ batch_signal = FALSE
    /\ limit \in {"unset", "running"}
    /\ task = "build"
    /\ tree = None /\ filtered_tree = None /\ pending_pattern = NonePattern
    /\ total_search_required = FALSE
    /\ page_height = 0
    /\ last = NoLast /\ before = None /\ installs = 0 /\ completed = None
    /\ first_run = None /\ opened = None /\ total_for = None
    /\ dropped = FALSE
    /\ PanelInputNew

NextBuild ==
    \/ GatherLinesBegin
    \/ GatherLoop
    \/ PollDam
    \/ LoadNextLevelDir
    \/ GatherLinesEnd
    \/ TrimExcessBegin
    \/ TrimStep
    \/ Take
    \/ DamSignal
    \/ NotLongElapses
    \/ LimitElapses

SpecBuild == InitBuild /\ [][NextBuild]_vars

\* --------------------------------- two builds on the same inputs: SpecTwice

\* the locals of gather_lines and trim_excess when no build runs
BuildIdle ==
    /\ out_blines' = <<>> /\ nb_lines_ok' = 0 /\ open_dirs' = <<>>
    /\ next_level_dirs' = <<>> /\ dir_idx' = 1 /\ count' = 0 /\ remove_queue' = <<>>
    /\ built' = None

\* whether a timer ended the gather phase, or may have: the early exit on
\* NOT_LONG (lines 285-291) or the break on BrootSearchLimit (lines 314-319)
Timed == (~total_search /\ elapsed) \/ limit = "passed"

\* a second TreeBuilder is made from the same root, options and targeted_size
\* and build is called with the same total_search, under a new dam: once after
\* a build that returned a tree, which is kept for comparison, and after every
\* build that was cancelled
BuildAgain ==
    /\ task = "build"
    /\ \/ /\ pc = "done" /\ first_run = None
          /\ first_run' = Some([built |-> Unwrap(built), timed |-> Timed,
                                after_cancelled |-> FALSE])
       \/ /\ pc = "cancelled"
          /\ first_run' = IF IsSome(first_run)
                           THEN Some([Unwrap(first_run) EXCEPT !.after_cancelled = TRUE])
                           ELSE None
    /\ builder' = TreeBuilderFrom(builder.root_id, builder.options,
                                  builder.targeted_size, TRUE)
    /\ BuildIdle
    /\ pc' = "start"
    /\ dam' = FALSE /\ elapsed' = FALSE /\ batch_signal' = FALSE
    /\ limit' = IF limit = "unset" THEN "unset" ELSE "running"
    /\ UNCHANGED <<fx, input_vars, dropped, total_for, opened, total_search, unlimited, task, state_vars, page_height,
                   hist_vars>>

\* the lines that make_line makes of the entries below the root
LineOf(n) == MakeLine(nodes, builder, FsParent(n), n, Len(PathOf(n)))

\* no two entries that make a line have the same score: the heap of
\* trim_excess then has one worst element at every step
TieFree ==
    \A m, n \in DOMAIN nodes \ {1} :
        (m # n /\ IsSome(LineOf(m)) /\ IsSome(LineOf(n)))
            => Unwrap(LineOf(m)).score # Unwrap(LineOf(n)).score

\* the builds are given a dam that can be signalled, on inputs for which the
\* order of the heap of trim_excess is decided
InitTwice == InitBuild /\ ~unlimited /\ TieFree

NextTwice == NextBuild \/ BuildAgain

SpecTwice == InitTwice /\ [][NextTwice]_vars

\* ------------------------------ a directory of files scored alike: SpecDeep

\* a build, with or without pattern, of the fixture whose only directory
\* holds more files of equal score than fit; BrootSearchLimit is not set
InitDeep ==
    /\ fx = Len(Fixtures)
    /\ \E options \in {DefaultOptions, [DefaultOptions EXCEPT !.trim_root = TRUE],
                        [DefaultOptions EXCEPT !.show_hidden = TRUE]},
          pattern \in Patterns :
         builder = TreeBuilderFrom(1, [options EXCEPT !.pattern = pattern],
                                   DeepTargetedSize, TRUE)
    /\ total_search \in BOOLEAN
    /\ out_blines = <<>> /\ nb_lines_ok = 0 /\ open_dirs = <<>>
    /\ next_level_dirs = <<>> /\ dir_idx = 1 /\ count = 0 /\ remove_queue = <<>>
    /\ built = None
    /\ pc = "start"
    /\ dam = FALSE /\ unlimited \in BOOLEAN /\ elapsed = FALSE /\ batch_signal = FALSE
    /\ limit = "unset"
    /\ task = "build"
    /\ tree = None /\ filtered_tree = None /\ pending_pattern = NonePattern
    /\ total_search_required = FALSE
    /\ page_height = 0
    /\ last = NoLast /\ before = None /\ installs = 0 /\ completed = None
    /\ first_run = None /\ opened = None /\ total_for = None
    /\ dropped = FALSE
    /\ PanelInputNew

NextDeep ==
    \/ GatherLinesBegin
    \/ GatherLoop
    \/ PollDam
    \/ LoadNextLevelDir
    \/ GatherLinesEnd
    \/ TrimExcessBegin
    \/ TrimStep
    \/ Take
    \/ DamSignal
    \/ NotLongElapses

SpecDeep == InitDeep /\ [][NextDeep]_vars

\* ------------------------- several directories at one level: SpecRound

\* the fixtures whose root holds several directories
SeveralDirs ==
    {f \in DOMAIN Fixtures :
       Cardinality({e \in Range(Fixtures[f][1].entries) : Fixtures[f][e].kind = "dir"}) > 1}

\* a build of one of them
InitRound ==
    /\ fx \in SeveralDirs
    /\ \E options \in OptionChoices, pattern \in Patterns,
          targeted_size \in 1..MaxTargetedSize :
         builder = TreeBuilderFrom(1, [options EXCEPT !.pattern = pattern],
                                   targeted_size, TRUE)
    /\ total_search \in BOOLEAN
    /\ out_blines = <<>> /\ nb_lines_ok = 0 /\ open_dirs = <<>>
    /\ next_level_dirs = <<>> /\ dir_idx = 1 /\ count = 0 /\ remove_queue = <<>>
    /\ built = None
    /\ pc = "start"
    /\ dam = FALSE /\ unlimited = FALSE /\ elapsed = FALSE /\ batch_signal = FALSE
    /\ limit \in {"unset", "running"}
    /\ task = "build"
    /\ tree = None /\ filtered_tree = None /\ pending_pattern = NonePattern
    /\ total_search_required = FALSE
    /\ page_height = 0
    /\ last = NoLast /\ before = None /\ installs = 0 /\ completed = None
    /\ first_run = None /\ opened = None /\ total_for = None
    /\ dropped = FALSE
    /\ PanelInputNew

SpecRound == InitRound /\ [][NextBuild]_vars

\* ------------------------------------------------------------- BrowserState

\* the fields of the BrowserState
State ==
    [tree |-> tree, filtered_tree |-> filtered_tree,
     pending_pattern |-> pending_pattern,
     total_search_required |-> total_search_required]

\* Tree::root
Root(t) == t.lines[1].path

\* BrowserState::displayed_tree
DisplayedTree(st) ==
    IF IsSome(st.filtered_tree) THEN Unwrap(st.filtered_tree) ELSE Unwrap(st.tree)

\* the lines of the directories under the root whose sum is not computed
DirsMissingSum(t) ==
    {i \in 2..Len(t.lines) : t.lines[i].file_type = "dir" /\ t.lines[i].sum = None}

\* Tree::has_dir_missing_sum: sizes are shown and a directory has no sum yet
HasDirMissingSum(t) == t.options.show_sizes /\ DirsMissingSum(t) # {}

\* Tree::fetch_some_missing_dir_sum: one more missing sum is computed, from
\* the bottom of the tree up
FetchSomeMissingDirSum(t) ==
    IF ~HasDirMissingSum(t) THEN t
    ELSE LET i == CHOOSE i \in DirsMissingSum(t) : \A j \in DirsMissingSum(t) : j <= i
         IN  [t EXCEPT !.lines[i].sum = Some("sum")]

\* BrowserState::get_pending_task
GetPendingTask(st) ==
    IF PatternIsSome(st.pending_pattern) THEN Some("searching")
    ELSE IF HasDirMissingSum(DisplayedTree(st)) THEN Some("computing stats")
    ELSE IF DisplayedTree(st).git_status = "NotComputed" THEN Some("computing git status")
    ELSE None

\* BrowserState::get_starting_input
GetStartingInput(st) ==
    IF PatternIsSome(st.pending_pattern) THEN st.pending_pattern.raw
    ELSE DisplayedTree(st).options.pattern.raw

\* Tree::try_select_best_match: the direct match of best score is selected
TrySelectBestMatch(t) ==
    LET direct == {i \in DOMAIN t.lines : t.lines[i].direct_match}
        best == {i \in direct : \A j \in direct : t.lines[j].score <= t.lines[i].score}
    IN  IF direct = {} THEN t
        ELSE [t EXCEPT !.selection = (CHOOSE i \in best : \A j \in best : j <= i) - 1]

\* Tree::make_selection_visible: the scroll is moved so that the selection shows
MakeSelectionVisible(t, height) ==
    IF t.selection < 3 THEN [t EXCEPT !.scroll = 0]
    ELSE IF t.selection < t.scroll + 3 THEN [t EXCEPT !.scroll = t.selection - 3]
    ELSE IF t.selection > t.scroll + height - 3
    THEN [t EXCEPT !.scroll = IF t.selection - height + 3 < Len(t.lines) - height
                              THEN t.selection - height + 3 ELSE Len(t.lines) - height]
    ELSE t

\* Tree::try_select_path: the line of that path is selected, when there is one
TrySelectPath(t, path) ==
    LET found == {i \in DOMAIN t.lines : t.lines[i].path = path}
    IN  IF found = {} THEN [tree |-> t, found |-> FALSE]
        ELSE [tree |-> [t EXCEPT !.selection = (CHOOSE i \in found : TRUE) - 1],
              found |-> TRUE]

\* the build fields as they are when no build runs
IdleBuilder == TreeBuilderFrom(1, DefaultOptions, 0, FALSE)

\* a new that leaves the pattern in the options of the base tree
PatternLeft(options) == options

\* the options once BrowserState::new has taken their pattern (line 44)
PatternTaken(options) == [options EXCEPT !.pattern = NonePattern]

\* BrowserState::new (lines 37-50): the pattern of the options becomes the
\* pending pattern and the builder of the base tree is made
InitNew ==
    /\ fx \in 1..NbStateFixtures
    /\ page_height \in 0..MaxPageHeight
    /\ \E options \in StateOptionChoices, pattern \in Patterns :
         LET given == [options EXCEPT !.pattern = pattern]
         IN  /\ pending_pattern = given.pattern
             /\ builder = TreeBuilderFrom(1, PatternTaken(given), page_height, TRUE)
    /\ total_search = FALSE
    /\ out_blines = <<>> /\ nb_lines_ok = 0 /\ open_dirs = <<>>
    /\ next_level_dirs = <<>> /\ dir_idx = 1 /\ count = 0 /\ remove_queue = <<>>
    /\ built = None
    /\ pc = "start"
    /\ dam = FALSE /\ unlimited \in BOOLEAN /\ elapsed = FALSE /\ batch_signal = FALSE
    /\ limit \in {"unset", "running"}
    /\ task = "new"
    /\ tree = None /\ filtered_tree = None
    /\ total_search_required = FALSE
    /\ last = NoLast /\ before = None /\ installs = 0 /\ completed = None
    /\ first_run = None /\ opened = None /\ total_for = None
    /\ dropped = FALSE
    /\ PanelInputNew

\* the dam and the clock of gather_lines are gone once the call has returned
CallReturns ==
    /\ dam' = FALSE /\ unlimited' = FALSE /\ elapsed' = FALSE /\ batch_signal' = FALSE
    /\ limit' = IF limit = "unset" THEN "unset" ELSE "running"

\* BrowserState::new (lines 51-57): the state is made of the tree that was built
NewEnd ==
    /\ task = "new" /\ pc \in {"done", "cancelled"}
    /\ IF IsSome(built)
       THEN /\ tree' = built
            /\ task' = "idle"
            /\ last' = [op |-> "new", result |-> "state", arg |-> NonePattern]
       ELSE /\ tree' = None
            /\ task' = "none"
            /\ last' = [op |-> "new", result |-> "cancelled", arg |-> NonePattern]
    /\ filtered_tree' = None
    /\ total_search_required' = FALSE
    /\ pc' = "idle"
    /\ builder' = IdleBuilder /\ total_search' = FALSE /\ BuildIdle
    /\ CallReturns
    /\ UNCHANGED <<fx, input_vars, dropped, total_for, first_run, opened, pending_pattern, page_height,
                   before, installs, completed>>

Idle == task = "idle"

\* an on_pattern that leaves the overlay to the next build
OverlayKeptAfterPattern(pat, ft) == ft

\* the overlay after on_pattern (lines 242-244): an empty pattern discards it
OverlayAfterPattern(pat, ft) == IF ~PatternIsSome(pat) THEN None ELSE ft

\* BrowserState::on_pattern
OnPattern ==
    /\ Idle
    /\ before' = None
    /\ dropped' = FALSE
    /\ \E pat \in Patterns :
         /\ filtered_tree' = OverlayAfterPattern(pat, filtered_tree)
         /\ pending_pattern' = pat
         /\ last' = [op |-> "on_pattern", result |-> "Keep", arg |-> pat]
    /\ installs' = 0
    /\ UNCHANGED <<fx, input_vars, total_for, first_run, opened, build_vars, pc, env_vars, task, tree, total_search_required,
                   page_height, completed>>

\* BrowserState::clear_pending
ClearPending ==
    /\ Idle
    /\ before' = None
    /\ pending_pattern' = NonePattern
    /\ last' = [op |-> "clear_pending", result |-> "none", arg |-> NonePattern]
    /\ UNCHANGED <<fx, input_vars, dropped, total_for, first_run, opened, build_vars, pc, env_vars, task, tree, filtered_tree,
                   total_search_required, page_height, installs, completed>>

\* BrowserState::on_internal, Internal::total_search
\* a total_search that does not look at the flag of the overlay
CanTotalSearchAgain(ft) == IsSome(ft)

\* whether total_search is accepted (lines 450-451)
CanTotalSearch(ft) == IsSome(ft) /\ ~Unwrap(ft).total_search

TotalSearch ==
    /\ Idle
    /\ before' = None
    /\ IF CanTotalSearch(filtered_tree)
       THEN /\ pending_pattern' = Unwrap(filtered_tree).options.pattern
            /\ total_search_required' = TRUE
            /\ dropped' = FALSE
            /\ total_for' = Some(Unwrap(filtered_tree).options.pattern)
            /\ installs' = 0
            /\ last' = [op |-> "total_search", result |-> "Keep", arg |-> NonePattern]
       ELSE /\ UNCHANGED <<pending_pattern, total_search_required, installs, total_for,
                         dropped>>
            /\ last' = [op |-> "total_search", result |-> "Error", arg |-> NonePattern]
    /\ UNCHANGED <<fx, input_vars, first_run, opened, build_vars, pc, env_vars, task, tree, filtered_tree,
                   page_height, completed>>

\* BrowserState::on_internal, Internal::back
\* a back that leaves the base tree as it is
ReselectNothing(t, path, height) == t

\* a back that resets the selection when the path is not in the base tree
ReselectOrReset(t, path, height) ==
    LET sel == TrySelectPath(t, path)
    IN  IF sel.found THEN MakeSelectionVisible(sel.tree, height)
        ELSE [t EXCEPT !.selection = 0]

\* the base tree after back has tried to select in it the path that the
\* overlay selects (lines 267-270)
Reselect(t, path, height) ==
    LET sel == TrySelectPath(t, path)
    IN  IF sel.found THEN MakeSelectionVisible(sel.tree, height) ELSE t

Back ==
    /\ Idle
    /\ before' = Some(State)
    /\ IF IsSome(filtered_tree)
       THEN LET ft == Unwrap(filtered_tree)
                filtered_selection == ft.lines[ft.selection + 1].path
            IN  /\ tree' = Some(Reselect(Unwrap(tree), filtered_selection, page_height))
                /\ filtered_tree' = None
                /\ dropped' = TRUE
                /\ last' = [op |-> "back", result |-> "Keep", arg |-> NonePattern]
       ELSE IF Unwrap(tree).selection > 0
       THEN /\ tree' = Some([Unwrap(tree) EXCEPT !.selection = 0])
            /\ filtered_tree' = filtered_tree
            /\ dropped' = dropped
            /\ last' = [op |-> "back", result |-> "Keep", arg |-> NonePattern]
       ELSE /\ UNCHANGED <<tree, filtered_tree, dropped>>
            /\ last' = [op |-> "back", result |-> "PopState", arg |-> NonePattern]
    /\ UNCHANGED <<fx, input_vars, total_for, first_run, opened, build_vars, pc, env_vars, task, pending_pattern,
                   total_search_required, page_height, installs, completed>>

\* a search built from the selected line instead of the root of the base tree
SearchRootAtSelection(t) == t.lines[Len(t.lines)].path

\* the root the filtered tree is built from (line 502)
SearchRoot(t) == Root(t)

\* a pattern that is cloned for the build and stays pending
PendingNotTaken(pattern) == pattern

\* what is left in pending_pattern once the build has its pattern (line 501)
TakePending(pattern) == NonePattern

\* what the computation of the git status of the displayed tree may end with
GitStatusResults == {"Done", "Failed"}

\* the displayed tree, with the git status that was computed (lines 524-526)
WithGitStatus(t, res) == [t EXCEPT !.git_status = res]

\* a do_pending_task that looks at the git status first
PendingWorkGitFirst(st) ==
    IF DisplayedTree(st).git_status = "NotComputed" THEN "git_status"
    ELSE IF PatternIsSome(st.pending_pattern) THEN "pattern"
    ELSE "sums"

\* the work do_pending_task chooses (lines 498, 523, 527)
PendingWork(st) ==
    IF PatternIsSome(st.pending_pattern) THEN "pattern"
    ELSE IF DisplayedTree(st).git_status = "NotComputed" THEN "git_status"
    ELSE "sums"

\* BrowserState::do_pending_task up to the call of build (lines 492-515), or
\* the whole of it when there is no pending pattern (lines 523-529).
\* TreeBuilder::from fails when the root cannot be read any more.
DoPendingTaskBegin ==
    /\ Idle
    /\ before' = Some(State)
    /\ IF PendingWork(State) = "pattern"
       THEN \E from_ok \in BOOLEAN :
              /\ pending_pattern' = TakePending(pending_pattern)
              /\ IF from_ok
                 THEN /\ builder' = TreeBuilderFrom(
                                       SearchRoot(Unwrap(tree)),
                                       [Unwrap(tree).options EXCEPT !.pattern = pending_pattern],
                                       page_height, TRUE)
                      /\ total_search' = total_search_required
                      /\ pc' = "start"
                      /\ task' = "search"
                      /\ dam' = FALSE /\ unlimited' = FALSE /\ elapsed' = FALSE
                      /\ batch_signal' = FALSE
                      /\ limit' = IF limit = "unset" THEN "unset" ELSE "running"
                      /\ last' = [op |-> "do_pending_task", result |-> "running",
                                  arg |-> pending_pattern]
                 ELSE /\ last' = [op |-> "do_pending_task", result |-> "builder_error",
                                  arg |-> pending_pattern]
                      /\ UNCHANGED <<builder, total_search, pc, task, env_vars>>
              /\ UNCHANGED <<tree, filtered_tree>>
       ELSE IF PendingWork(State) = "git_status"
       THEN /\ \E res \in GitStatusResults :
                 IF IsSome(filtered_tree)
                 THEN /\ filtered_tree' = Some(WithGitStatus(Unwrap(filtered_tree), res))
                      /\ tree' = tree
                 ELSE /\ tree' = Some(WithGitStatus(Unwrap(tree), res))
                      /\ filtered_tree' = filtered_tree
            /\ last' = [op |-> "do_pending_task", result |-> "git_status",
                        arg |-> NonePattern]
            /\ UNCHANGED <<builder, total_search, pc, task, env_vars, pending_pattern>>
       ELSE /\ IF IsSome(filtered_tree)
               THEN /\ filtered_tree' = Some(FetchSomeMissingDirSum(Unwrap(filtered_tree)))
                    /\ tree' = tree
               ELSE /\ tree' = Some(FetchSomeMissingDirSum(Unwrap(tree)))
                    /\ filtered_tree' = filtered_tree
            /\ last' = [op |-> "do_pending_task",
                        result |-> IF HasDirMissingSum(DisplayedTree(State))
                                   THEN "sums" ELSE "other",
                        arg |-> NonePattern]
            /\ UNCHANGED <<builder, total_search, pc, task, env_vars, pending_pattern>>
    /\ UNCHANGED <<fx, input_vars, dropped, total_for, first_run, opened, out_blines, nb_lines_ok, open_dirs, next_level_dirs, dir_idx,
                   count, remove_queue, built, total_search_required, page_height,
                   installs, completed>>

\* an install of what the cancelled build had gathered
InstallPartial(ft, partial) == Some(partial)

\* the overlay after a build that was cancelled (line 518, no tree)
KeptOverlay(ft, partial) == ft

\* BrowserState::do_pending_task once build has returned (lines 516-522)
DoPendingTaskEnd ==
    /\ task = "search" /\ pc \in {"done", "cancelled"}
    /\ total_search_required' = FALSE
    /\ total_for' = None
    /\ IF IsSome(built)
       THEN /\ filtered_tree' = Some(MakeSelectionVisible(TrySelectBestMatch(Unwrap(built)),
                                                          page_height))
            /\ installs' = installs + 1
            /\ completed' = Some(builder.options.pattern)
            /\ last' = [last EXCEPT !.result = "installed"]
       ELSE /\ filtered_tree' = KeptOverlay(filtered_tree, TakeTree(builder, out_blines))
            /\ UNCHANGED <<installs, completed>>
            /\ last' = [last EXCEPT !.result = "cancelled"]
    /\ pc' = "idle" /\ task' = "idle"
    /\ builder' = IdleBuilder /\ total_search' = FALSE /\ BuildIdle
    /\ CallReturns
    /\ UNCHANGED <<fx, input_vars, dropped, first_run, opened, tree, pending_pattern, page_height, before>>

Init == InitNew

Next ==
    \/ GatherLinesBegin
    \/ GatherLoop
    \/ PollDam
    \/ LoadNextLevelDir
    \/ GatherLinesEnd
    \/ TrimExcessBegin
    \/ TrimStep
    \/ Take
    \/ DamSignal
    \/ NotLongElapses
    \/ LimitElapses
    \/ NewEnd
    \/ OnPattern
    \/ ClearPending
    \/ TotalSearch
    \/ Back
    \/ DoPendingTaskBegin
    \/ DoPendingTaskEnd

Spec == Init /\ [][Next]_vars

\* ------------------------------------- open_selection_stay_in_broot: SpecOpen

\* BrowserState::new on any directory of the filesystem
InitOpen ==
    /\ fx \in 1..NbStateFixtures
    /\ page_height \in 1..MaxPageHeight
    /\ \E path \in {n \in DOMAIN nodes : nodes[n].kind = "dir"}, options \in StateOptionChoices, pattern \in Patterns :
         LET given == [options EXCEPT !.pattern = pattern]
         IN  /\ pending_pattern = given.pattern
             /\ builder = TreeBuilderFrom(path, PatternTaken(given), page_height, TRUE)
    /\ total_search = FALSE
    /\ out_blines = <<>> /\ nb_lines_ok = 0 /\ open_dirs = <<>>
    /\ next_level_dirs = <<>> /\ dir_idx = 1 /\ count = 0 /\ remove_queue = <<>>
    /\ built = None
    /\ pc = "start"
    /\ dam = FALSE /\ unlimited = TRUE /\ elapsed = FALSE /\ batch_signal = FALSE
    /\ limit = "unset"
    /\ task = "new"
    /\ tree = None /\ filtered_tree = None
    /\ total_search_required = FALSE
    /\ last = NoLast /\ before = None /\ installs = 0 /\ completed = None
    /\ first_run = None /\ opened = None /\ total_for = None
    /\ dropped = FALSE
    /\ PanelInputNew

\* Path::parent: the root of the filesystem has none
ParentPath(n) == IF n = 1 THEN None ELSE Some(FsParent(n))

\* TreeOptions::without_pattern
WithoutPattern(options) == [options EXCEPT !.pattern = NonePattern]

\* Tree::selected_line
SelectedLine(t) == t.lines[t.selection + 1]

\* an open_stay that goes to the selected line even when it is the root
OpenTargetIsSelection(t) == SelectedLine(t).path

\* the directory open_stay goes to (lines 88-97): the selected one, or the
\* parent of the root, when it has one, if the root is selected
OpenTarget(t) ==
    LET target == SelectedLine(t).path
    IN  IF t.selection = 0 /\ IsSome(ParentPath(target))
        THEN Unwrap(ParentPath(target)) ELSE target

\* BrowserState::open_selection_stay_in_broot up to the build of the new
\* state (lines 87-110 and 37-50), or the whole of it on a file (112-119)
OpenStayBegin ==
    /\ Idle /\ opened = None
    /\ before' = Some(State)
    /\ LET t == DisplayedTree(State)
       IN  IF SelectedLine(t).file_type = "dir"
           THEN \E in_new_panel, keep_pattern, from_ok \in BOOLEAN :
                  LET options == IF keep_pattern THEN t.options ELSE WithoutPattern(t.options)
                  IN  IF from_ok
                      THEN /\ builder' = TreeBuilderFrom(OpenTarget(t),
                                             PatternTaken(options), page_height, TRUE)
                           /\ total_search' = FALSE
                           /\ pc' = "start" /\ task' = "open"
                           /\ dam' = FALSE /\ unlimited' = TRUE /\ elapsed' = FALSE
                           /\ batch_signal' = FALSE
                           /\ limit' = IF limit = "unset" THEN "unset" ELSE "running"
                           /\ opened' = Some([in_new_panel |-> in_new_panel,
                                              keep_pattern |-> keep_pattern,
                                              pending_pattern |-> options.pattern,
                                              state |-> None])
                           /\ last' = [op |-> "open_stay", result |-> "running",
                                       arg |-> options.pattern]
                      ELSE /\ last' = [op |-> "open_stay", result |-> "Error",
                                       arg |-> options.pattern]
                           /\ UNCHANGED <<builder, total_search, pc, task, env_vars, opened>>
           ELSE \E opener_ok \in BOOLEAN :
                  /\ last' = [op |-> "open_stay",
                              result |-> IF opener_ok THEN "Keep" ELSE "Error",
                              arg |-> NonePattern]
                  /\ UNCHANGED <<builder, total_search, pc, task, env_vars, opened>>
    /\ UNCHANGED <<fx, input_vars, dropped, total_for, first_run, out_blines, nb_lines_ok, open_dirs, next_level_dirs, dir_idx,
                   count, remove_queue, built, state_vars, page_height, installs, completed>>

\* open_selection_stay_in_broot once build has returned (lines 51-57 and 99):
\* the new state is made and given to the application, which shows it
OpenStayEnd ==
    /\ task = "open" /\ pc \in {"done", "cancelled"}
    /\ IF IsSome(built)
       THEN /\ opened' = Some([Unwrap(opened) EXCEPT
                    !.state = Some([tree |-> Unwrap(built), filtered_tree |-> None,
                                    pending_pattern |-> Unwrap(opened).pending_pattern,
                                    total_search_required |-> FALSE])])
            /\ last' = [last EXCEPT !.result = "NewState"]
       ELSE /\ opened' = opened
            /\ last' = [last EXCEPT !.result = "Keep"]
    /\ pc' = "idle" /\ task' = "opened"
    /\ builder' = IdleBuilder /\ total_search' = FALSE /\ BuildIdle
    /\ CallReturns
    /\ UNCHANGED <<fx, input_vars, dropped, total_for, first_run, state_vars, page_height, before, installs, completed>>

\* Tree::try_select_y: the line shown on row y of the page is selected, when
\* there is one
TrySelectY(t, y) ==
    IF t.scroll + y < Len(t.lines) THEN [t EXCEPT !.selection = t.scroll + y] ELSE t

\* BrowserState::on_click
OnClick ==
    /\ Idle
    /\ before' = None
    /\ \E y \in 0..MaxPageHeight :
         IF IsSome(filtered_tree)
         THEN /\ filtered_tree' = Some(TrySelectY(Unwrap(filtered_tree), y))
              /\ tree' = tree
         ELSE /\ tree' = Some(TrySelectY(Unwrap(tree), y))
              /\ filtered_tree' = filtered_tree
    /\ last' = [op |-> "on_click", result |-> "Keep", arg |-> NonePattern]
    /\ UNCHANGED <<fx, input_vars, dropped, total_for, first_run, opened, build_vars, pc, env_vars, task, pending_pattern,
                   total_search_required, page_height, installs, completed>>

\* the state with its builds, patterns and clicks, and open_stay; back and the
\* events that cancel a build or cut it short are those of Spec
NextOpen ==
    \/ GatherLinesBegin
    \/ GatherLoop
    \/ PollDam
    \/ LoadNextLevelDir
    \/ GatherLinesEnd
    \/ TrimExcessBegin
    \/ TrimStep
    \/ Take
    \/ NewEnd
    \/ OnPattern
    \/ OnClick
    \/ DoPendingTaskBegin
    \/ DoPendingTaskEnd
    \/ OpenStayBegin
    \/ OpenStayEnd

SpecOpen == InitOpen /\ [][NextOpen]_vars

\* ------------------------------------------------ directory sums: SpecSums

\* options with which the sizes are shown
SumOptionChoices ==
    {[DefaultOptions EXCEPT !.show_sizes = TRUE],
     [DefaultOptions EXCEPT !.show_sizes = TRUE, !.filter_by_git_status = TRUE]}

\* BrowserState::new with options that show the sizes
InitSums ==
    /\ fx \in 1..NbStateFixtures
    /\ page_height \in 0..MaxPageHeight
    /\ \E options \in SumOptionChoices, pattern \in Patterns :
         LET given == [options EXCEPT !.pattern = pattern]
         IN  /\ pending_pattern = given.pattern
             /\ builder = TreeBuilderFrom(1, PatternTaken(given), page_height, TRUE)
    /\ total_search = FALSE
    /\ out_blines = <<>> /\ nb_lines_ok = 0 /\ open_dirs = <<>>
    /\ next_level_dirs = <<>> /\ dir_idx = 1 /\ count = 0 /\ remove_queue = <<>>
    /\ built = None
    /\ pc = "start"
    /\ dam = FALSE /\ unlimited = TRUE /\ elapsed = FALSE /\ batch_signal = FALSE
    /\ limit = "unset"
    /\ task = "new"
    /\ tree = None /\ filtered_tree = None
    /\ total_search_required = FALSE
    /\ last = NoLast /\ before = None /\ installs = 0 /\ completed = None
    /\ first_run = None /\ opened = None /\ total_for = None
    /\ dropped = FALSE
    /\ PanelInputNew

\* the state with its builds and patterns, and the calls of do_pending_task
NextSums ==
    \/ GatherLinesBegin
    \/ GatherLoop
    \/ PollDam
    \/ LoadNextLevelDir
    \/ GatherLinesEnd
    \/ TrimExcessBegin
    \/ TrimStep
    \/ Take
    \/ NewEnd
    \/ OnPattern
    \/ DoPendingTaskBegin
    \/ DoPendingTaskEnd

SpecSums == InitSums /\ [][NextSums]_vars

\* ------------------------------------------ PanelInput::get_command: SpecInput
\* The input is a string of bytes: 'p' stands for a character of a pattern,
\* ':' starts a verb invocation, and completion number i is the letter after
\* i - 1 others ('a', 'b', ...).

MaxInputLen == 2

MaxCompletions == 3

MaxTabs == 4

Modes == {"Input", "Command"}

\* what Completions::for_input may answer: nothing, a common completion, or
\* a list of several; completion number i is <<96 + i>>
CompletionChoices ==
    {[kind |-> "None", list |-> <<>>], [kind |-> "Common", list |-> <<<<97>>>>]}
    \cup {[kind |-> "List", list |-> [i \in 1..n |-> <<96 + i>>]] : n \in 2..MaxCompletions}

\* CommandParts::from(raw).verb_invocation.is_some(): the input has a ':'
HasVerbInvocation(raw) == \E i \in DOMAIN raw : raw[i] = 58

\* everything get_command leaves alone
NotThePanelInput ==
    <<fx, build_vars, pc, env_vars, task, state_vars, page_height, hist_vars, first_run,
      opened, total_for, dropped>>

\* what get_command was called with, and the command it returned
Returned(event, cmd, raw, modal, mode) ==
    [event |-> event, cmd |-> cmd, raw |-> raw, modal |-> modal, mode |-> mode,
     content |-> input_field, count |-> tab_cycle_count,
     before_cycle |-> input_before_cycle, verb_key |-> FALSE]

\* an ESC that leaves the insertion mode before it looks at the tab cycle
EscCaseModalFirst(before_cycle, modal, mode) ==
    IF modal /\ mode = "Input" THEN "mode_command"
    ELSE IF IsSome(before_cycle) THEN "from_raw"
    ELSE "back"

\* the case ESC is resolved to (lines 177-200)
EscCase(before_cycle, modal, mode) ==
    IF IsSome(before_cycle) THEN "from_raw"
    ELSE IF modal /\ mode = "Input" THEN "mode_command"
    ELSE "back"

\* get_command on the ESC key (lines 169-200), which returns before the keys
\* of the verbs are looked at; verb_key: ESC is also the key of a verb
KeyEsc ==
    /\ \E modal, verb_key \in BOOLEAN, mode \in Modes :
         LET case == EscCase(input_before_cycle, modal, mode)
         IN  /\ tab_cycle_count' = 0
             /\ input_before_cycle' = None
             /\ input_field' = CASE case = "from_raw" -> Unwrap(input_before_cycle)
                                  [] case = "mode_command" -> input_field
                                  [] case = "back" -> <<>>
             /\ returned' = [Returned("ESC", case, input_field', modal, mode)
                                EXCEPT !.verb_key = verb_key]
    /\ run' = NoRun
    /\ UNCHANGED NotThePanelInput

\* a completion that is appended to the input as it is
AppendToCurrent(before_cycle, raw) == raw

\* the input a completion is appended to (lines 233-236)
AppendTo(before_cycle, raw) == IF IsSome(before_cycle) THEN Unwrap(before_cycle) ELSE raw

\* the TAB keys of a run, after one more: the run is steady as long as the
\* input has a verb invocation and every TAB gets the same list
RunAfterTab(raw, completions) ==
    LET list == HasVerbInvocation(raw) /\ completions.kind = "List"
    IN  IF run.k = 0
        THEN [k |-> 1, base |-> raw, list |-> completions.list, steady |-> list]
        ELSE [run EXCEPT !.k = @ + 1,
                         !.steady = @ /\ list /\ completions.list = run.list]

\* get_command on the TAB key (lines 203-246), with what
\* Completions::for_input answers
KeyTab ==
    /\ run.k < MaxTabs
    /\ \E completions \in CompletionChoices, mode \in Modes :
         LET raw == input_field
         IN  /\ run' = RunAfterTab(raw, completions)
             /\ IF ~HasVerbInvocation(raw)
                THEN /\ UNCHANGED <<input_field, tab_cycle_count, input_before_cycle>>
                     /\ returned' = Returned("TAB", "None", raw, FALSE, mode)
                ELSE IF completions.kind = "None"
                THEN /\ tab_cycle_count' = 0
                     /\ input_before_cycle' = None
                     /\ input_field' = input_field
                     /\ returned' = Returned("TAB", "None", raw, FALSE, mode)
                ELSE LET idx == tab_cycle_count % Len(completions.list)
                         before_cycle ==
                             IF completions.kind = "List" /\ tab_cycle_count = 0
                             THEN Some(raw) ELSE input_before_cycle
                         added == IF completions.kind = "Common"
                                  THEN completions.list[1]
                                  ELSE completions.list[idx + 1]
                         new_raw == AppendTo(before_cycle, raw) \o added
                     IN  /\ Len(new_raw) <= MaxInputLen + 1
                         /\ tab_cycle_count' = IF completions.kind = "Common" THEN 0
                                                ELSE tab_cycle_count + 1
                         /\ input_before_cycle' = before_cycle
                         /\ input_field' = new_raw
                         /\ returned' = Returned("TAB", "from_raw", new_raw, FALSE, mode)
    /\ UNCHANGED NotThePanelInput

\* get_command on a key that puts a character in the input (lines 246-249
\* and 303-308): the key starts no verb, and in command mode it does nothing
KeyChar ==
    /\ \E c \in {112, 58}, mode \in Modes :
         /\ Len(input_field) < MaxInputLen
         /\ input_field' = IF mode = "Input" THEN Append(input_field, c) ELSE input_field
         /\ returned' = Returned("Char", IF mode = "Input" THEN "from_raw" ELSE "None",
                                  input_field', FALSE, mode)
    /\ tab_cycle_count' = 0
    /\ input_before_cycle' = None
    /\ run' = NoRun
    /\ UNCHANGED NotThePanelInput

\* get_command on the key of the verb input_del_char_left (lines 246-249,
\* 265-280 and 93): with nothing to delete, the verb is triggered
KeyDelCharLeft ==
    /\ input_field' = IF input_field = <<>> THEN <<>>
                      ELSE SubSeq(input_field, 1, Len(input_field) - 1)
    /\ returned' = Returned("DelCharLeft",
                             IF input_field = <<>> THEN "VerbTrigger" ELSE "from_raw",
                             input_field', FALSE, "Input")
    /\ tab_cycle_count' = 0
    /\ input_before_cycle' = None
    /\ run' = NoRun
    /\ UNCHANGED NotThePanelInput

\* get_command on the ENTER key (lines 246-253)
KeyEnter ==
    /\ \E mode \in Modes :
         returned' = Returned("Enter",
                              IF HasVerbInvocation(input_field) THEN "from_parts" ELSE "None",
                              input_field, FALSE, mode)
    /\ tab_cycle_count' = 0
    /\ input_before_cycle' = None
    /\ run' = NoRun
    /\ UNCHANGED <<input_field, NotThePanelInput>>

\* get_command on a click (lines 159-165): in the input it moves the cursor
Click ==
    /\ \E in_input \in BOOLEAN, mode \in Modes :
         returned' = Returned("Click", IF in_input THEN "empty" ELSE "Click",
                              input_field, FALSE, mode)
    /\ UNCHANGED <<input_field, tab_cycle_count, input_before_cycle, run,
                   NotThePanelInput>>

\* get_command on a turn of the wheel (lines 310-320)
Wheel ==
    /\ \E down \in BOOLEAN, mode \in Modes :
         returned' = Returned("Wheel",
                              IF down THEN "line_down_no_cycle" ELSE "line_up_no_cycle",
                              input_field, FALSE, mode)
    /\ UNCHANGED <<input_field, tab_cycle_count, input_before_cycle, run,
                   NotThePanelInput>>

\* a new PanelInput, next to a state nothing is done with
InitInput ==
    /\ PanelInputNew
    /\ fx = 1
    /\ builder = IdleBuilder /\ total_search = FALSE
    /\ out_blines = <<>> /\ nb_lines_ok = 0 /\ open_dirs = <<>>
    /\ next_level_dirs = <<>> /\ dir_idx = 1 /\ count = 0 /\ remove_queue = <<>>
    /\ built = None
    /\ pc = "idle"
    /\ dam = FALSE /\ unlimited = FALSE /\ elapsed = FALSE /\ batch_signal = FALSE
    /\ limit = "unset"
    /\ task = "none"
    /\ tree = None /\ filtered_tree = None /\ pending_pattern = NonePattern
    /\ total_search_required = FALSE
    /\ page_height = 0
    /\ last = NoLast /\ before = None /\ installs = 0 /\ completed = None
    /\ first_run = None /\ opened = None /\ total_for = None
    /\ dropped = FALSE

NextInput ==
    \/ KeyEsc
    \/ KeyTab
    \/ KeyChar
    \/ KeyDelCharLeft
    \/ KeyEnter
    \/ Click
    \/ Wheel

SpecInput == InitInput /\ [][NextInput]_vars

\* ------------------------------------------------------------------- claims

CancelledCall == last.op = "do_pending_task" /\ last.result = "cancelled"

\* C1: when do_pending_task runs with a pending pattern and the build is
\* cancelled, the state after the call is the state before it (base tree,
\* filtered_tree, pending_pattern, total_search_required), and so are the
\* values of get_pending_task and get_starting_input.
C1_CancelledCallChangesNothing ==
    CancelledCall =>
        /\ State = Unwrap(before)
        /\ GetPendingTask(State) = GetPendingTask(Unwrap(before))
        /\ GetStartingInput(State) = GetStartingInput(Unwrap(before))

\* C2: a pattern survives a cancelled build: the do_pending_task call that
\* follows a cancelled one, with no intent in between, builds the pattern of
\* the cancelled build again.
C2_CancelledPatternIsRebuilt ==
    [][(CancelledCall /\ last'.op = "do_pending_task"
          /\ last'.result # "builder_error")
       => (task' = "search"
           /\ builder'.options.pattern = Unwrap(before).pending_pattern)]_vars

\* what a tree was built as: its lines, options and total_search flag (the
\* cursor and the git status slot are changed in place afterwards)
BuiltAs(t) == [lines |-> t.lines, options |-> t.options, total_search |-> t.total_search]

\* C3: filtered_tree is given a tree only by do_pending_task, and only the
\* complete tree a build returned; it is dropped only by on_pattern and back;
\* a cancelled build or a failed TreeBuilder::from leaves it as it was.
C3_OverlayIsCompleteBuild ==
    [][/\ (IsSome(filtered_tree')
           /\ (~IsSome(filtered_tree)
               \/ BuiltAs(Unwrap(filtered_tree')) # BuiltAs(Unwrap(filtered_tree))))
            => /\ task = "search" /\ pc = "done" /\ IsSome(built)
               /\ (count <= builder.targeted_size \/ remove_queue = <<>>)
               /\ Unwrap(built) = TakeTree(builder, out_blines)
               /\ BuiltAs(Unwrap(filtered_tree')) = BuiltAs(Unwrap(built))
       /\ (filtered_tree' # filtered_tree /\ ~IsSome(filtered_tree'))
            => last'.op \in {"on_pattern", "back"}
       /\ (last'.op = "do_pending_task" /\ last'.result \in {"cancelled", "builder_error"})
            => filtered_tree' = filtered_tree]_vars

C3_Witness == CancelledCall /\ IsSome(filtered_tree)

\* C4: a submitted pattern (on_pattern, total_search) is installed at most
\* once, however many do_pending_task calls follow it.
C4_AtMostOneInstall == installs <= 1

C4_Witness ==
    installs = 1 /\ last.op = "do_pending_task" /\ last.result = "other"

\* C5: on_pattern stores the pattern as pending_pattern and returns Keep; with
\* an empty pattern it sets filtered_tree to None at once; it leaves the base
\* tree alone, installs no overlay and starts no build.
C5_OnPatternOnlyStores ==
    [][last'.op = "on_pattern"
       => /\ pending_pattern' = last'.arg
          /\ last'.result = "Keep"
          /\ (~PatternIsSome(last'.arg) => filtered_tree' = None)
          /\ (PatternIsSome(last'.arg) => filtered_tree' = filtered_tree)
          /\ tree' = tree
          /\ task' = "idle" /\ pc' = pc /\ built' = built]_vars

C5_Witness ==
    /\ last.op = "on_pattern" /\ ~PatternIsSome(last.arg)
    /\ IsSome(completed) /\ filtered_tree = None

\* C6: a filtered_tree that is present has the root of the base tree, and its
\* options.pattern is the pattern of the last build that was not cancelled.
C6_OverlayOfLastCompletedSearch ==
    IsSome(filtered_tree) =>
        /\ Root(Unwrap(filtered_tree)) = Root(Unwrap(tree))
        /\ IsSome(completed)
        /\ Unwrap(filtered_tree).options.pattern = Unwrap(completed)

C6_Witness ==
    /\ IsSome(filtered_tree) /\ last.op = "do_pending_task" /\ last.result = "installed"
    /\ IsSome(Unwrap(before).filtered_tree)
    /\ Unwrap(Unwrap(before).filtered_tree).options.pattern
         # Unwrap(filtered_tree).options.pattern

TreePaths(t) == {t.lines[i].path : i \in DOMAIN t.lines}

\* C7: in a tree returned by build the parent directory of every line but the
\* root is a line too; once gathered, a matching line of out_blines has a
\* matching parent, and trim_excess keeps it so.
C7_ParentClosure ==
    /\ pc = "done" =>
         \A i \in 2..Len(Unwrap(built).lines) :
            FsParent(Unwrap(built).lines[i].path) \in TreePaths(Unwrap(built))
    /\ pc \in {"trim_excess", "trim", "take", "done"} =>
         \A i \in 2..Len(out_blines) :
            builder.blines[out_blines[i]].has_match
              => builder.blines[FsParent(out_blines[i])].has_match

C7_Witness ==
    /\ pc = "done"
    /\ \E i \in DOMAIN Unwrap(built).lines : Unwrap(built).lines[i].depth = 2
    /\ \E id \in Range(out_blines) :
          builder.blines[id].depth = 2 /\ ~builder.blines[id].has_match
          /\ builder.blines[id].direct_match /\ ~builder.options.filter_by_git_status

\* C8: with a pattern, the tree build returns has at most targeted_size + 1
\* lines, the root included, whatever the fixture and total_search.
C8_BoundedOutput ==
    (pc = "done" /\ PatternIsSome(builder.options.pattern))
      => Len(Unwrap(built).lines) <= builder.targeted_size + 1

C8_Witness ==
    /\ pc = "done" /\ PatternIsSome(builder.options.pattern) /\ total_search
    /\ Len(out_blines) > builder.targeted_size + 1
    /\ Len(Unwrap(built).lines) = builder.targeted_size

\* C9: without pattern and with trim_root false, every child of the root that
\* make_line accepted is a line of the tree build returns, whatever
\* targeted_size and total_search.
C9_RootFullyListed ==
    (pc = "done" /\ ~PatternIsSome(builder.options.pattern) /\ ~builder.trim_root)
      => \A id \in Range(Unwrap(builder.blines[builder.root_id].children)) :
            id \in TreePaths(Unwrap(built))

\* C10: a tree with total_search = true comes from a gather phase that went
\* through the whole subtree: every directory that can be entered had its
\* children loaded and emitted.
C10_TotalSearchHonest ==
    (pc = "done" /\ Unwrap(built).total_search)
      => \A id \in DOMAIN builder.blines :
            CanEnter(builder.blines[id])
              => /\ IsSome(builder.blines[id].children)
                 /\ Range(Unwrap(builder.blines[id].children)) \subseteq Range(out_blines)

\* the lines before line i of a sequence of tree lines that are less deep
Shallower(ls, i) == {j \in 1..(i - 1) : ls[j].depth < ls[i].depth}

\* the lines before line i that are not deeper
NotDeeper(ls, i) == {j \in 1..(i - 1) : ls[j].depth <= ls[i].depth}

Nearest(S) == CHOOSE j \in S : \A k \in S : k <= j

\* C11 (as amended): a tree build returns has the root as its first line, and
\* for every other line L, of depth d, the nearest line before L that is less
\* deep than L is the parent of L, at depth d - 1.
C11_PreOrder ==
    pc = "done" =>
        LET ls == Unwrap(built).lines
        IN  /\ ls[1].path = builder.root_id /\ ls[1].depth = 0
            /\ \A i \in 2..Len(ls) :
                  /\ Shallower(ls, i) # {}
                  /\ ls[Nearest(Shallower(ls, i))].path = FsParent(ls[i].path)
                  /\ ls[Nearest(Shallower(ls, i))].depth = ls[i].depth - 1

\* C11 (as claimed): for every line L but the root, of depth d, the nearest
\* line before L of depth <= d is an ancestor of L at depth d - 1.
C11_PreOrderAsClaimed ==
    pc = "done" =>
        LET ls == Unwrap(built).lines
        IN  /\ ls[1].path = builder.root_id /\ ls[1].depth = 0
            /\ \A i \in 2..Len(ls) :
                  /\ NotDeeper(ls, i) # {}
                  /\ ls[Nearest(NotDeeper(ls, i))].path = FsParent(ls[i].path)
                  /\ ls[Nearest(NotDeeper(ls, i))].depth = ls[i].depth - 1

\* a tree where a line of depth 1 comes after a line of depth 2, which
\* out_blines has in the other order
C11_Witness ==
    /\ pc = "done"
    /\ \E i \in 2..(Len(Unwrap(built).lines) - 1) :
          /\ Unwrap(built).lines[i].depth = 2
          /\ Unwrap(built).lines[i + 1].depth = 1
          /\ \E m, n \in DOMAIN out_blines :
                /\ m < n
                /\ out_blines[m] = Unwrap(built).lines[i + 1].path
                /\ out_blines[n] = Unwrap(built).lines[i].path

\* the directories of the fixture that node n is under
RECURSIVE Ancestors(_)
Ancestors(n) == IF n = 1 THEN {} ELSE {FsParent(n)} \cup Ancestors(FsParent(n))

\* whether the pattern of the build gives entry n a score
DirectlyMatches(n) == IsSome(ScoreOf(builder.options.pattern, nodes[n]))

\* C12: in a tree build returns, every directory that is a line after the
\* root matches the pattern itself, or an entry under it does.
C12_MatchMonotonicity ==
    pc = "done" =>
        \A i \in 2..Len(Unwrap(built).lines) :
            LET D == Unwrap(built).lines[i]
            IN  D.file_type = "dir" =>
                  \/ DirectlyMatches(D.path)
                  \/ \E n \in DOMAIN nodes : D.path \in Ancestors(n) /\ DirectlyMatches(n)

\* a directory that does not match is a line because of a file two levels
\* under it, while another directory was gathered and is no line
C12_Witness ==
    /\ pc = "done" /\ PatternIsSome(builder.options.pattern)
    /\ \E i \in 2..Len(Unwrap(built).lines) :
          /\ Unwrap(built).lines[i].file_type = "dir"
          /\ ~DirectlyMatches(Unwrap(built).lines[i].path)
          /\ ~\E n \in Range(nodes[Unwrap(built).lines[i].path].entries) : DirectlyMatches(n)
    /\ \E id \in Range(out_blines) :
          /\ builder.blines[id].file_type = "dir"
          /\ ~DirectlyMatches(id)
          /\ ~\E n \in DOMAIN nodes : id \in Ancestors(n) /\ DirectlyMatches(n)

\* name a does not come after name b when case is ignored
NameNotAfter(a, b) == ~StrLess(ToLowercase(nodes[b].name), ToLowercase(nodes[a].name))

\* C13: in a tree build returns, the lines of a same parent are in the
\* case-insensitive order of their names; and the children of a directory
\* are emitted by next_child, into out_blines, in that order.
C13_SiblingOrder ==
    /\ pc = "done" =>
         LET ls == Unwrap(built).lines
         IN  \A i, j \in 2..Len(ls) :
               (i < j /\ FsParent(ls[i].path) = FsParent(ls[j].path))
                 => NameNotAfter(ls[i].path, ls[j].path)
    /\ \A i, j \in 2..Len(out_blines) :
         (i < j /\ builder.blines[out_blines[i]].parent_id
                     = builder.blines[out_blines[j]].parent_id)
           => NameNotAfter(out_blines[i], out_blines[j])

\* two lines of a same parent that the order of the bytes, and the order of
\* read_dir, would put the other way round
C13_Witness ==
    /\ pc = "done"
    /\ \E i, j \in 2..Len(Unwrap(built).lines) :
          LET a == Unwrap(built).lines[i].path
              b == Unwrap(built).lines[j].path
          IN  /\ i < j /\ FsParent(a) = FsParent(b)
              /\ StrLess(nodes[b].name, nodes[a].name)
              /\ \E m, n \in DOMAIN nodes[FsParent(a)].entries :
                    /\ m < n
                    /\ nodes[FsParent(a)].entries[m] = b
                    /\ nodes[FsParent(a)].entries[n] = a

\* C14: a build whose dam is Dam::unlimited() is never cancelled: it does
\* not return None, and what it returns is the tree that take made.
C14_UnlimitedNeverCancelled ==
    unlimited =>
        /\ pc # "cancelled"
        /\ pc = "done" => (IsSome(built) /\ Unwrap(built) = TakeTree(builder, out_blines))

\* a build with an unlimited dam that went deeper than the root, so polled
\* the dam, after NOT_LONG had elapsed
C14_Witness ==
    /\ unlimited /\ pc = "done" /\ elapsed
    /\ \E id \in Range(out_blines) : builder.blines[id].depth = 2

BothBuilt == pc = "done" /\ IsSome(first_run) /\ IsSome(built)

\* the two trees have the same sequence of lines
SameLines == Unwrap(built).lines = Unwrap(first_run).built.lines

BackStep ==
    /\ last'.op = "back"
    /\ <<tree, filtered_tree, last, before>>' # <<tree, filtered_tree, last, before>>

\* the path a tree selects
SelectedPath(t) == t.lines[t.selection + 1].path

\* C17: back has three outcomes. With an overlay it drops the overlay,
\* returns Keep and, when the path the overlay selects is a line of the base
\* tree, makes that line the selection of the base tree; with no overlay and a
\* base selection above 0 it sets the selection to 0 and returns Keep;
\* PopState is returned exactly when there is no overlay and the base selection
\* is 0, and then nothing changes.
C17_BackOutcomes ==
    [][BackStep =>
        LET t == Unwrap(tree)
            t2 == Unwrap(tree')
        IN  /\ last'.result \in {"Keep", "PopState"}
            /\ IsSome(filtered_tree) =>
                  /\ filtered_tree' = None /\ last'.result = "Keep"
                  /\ t2.lines = t.lines
                  /\ (SelectedPath(Unwrap(filtered_tree)) \in TreePaths(t))
                        => SelectedPath(t2) = SelectedPath(Unwrap(filtered_tree))
            /\ (~IsSome(filtered_tree) /\ t.selection > 0) =>
                  /\ t2 = [t EXCEPT !.selection = 0]
                  /\ filtered_tree' = None /\ last'.result = "Keep"
            /\ (~IsSome(filtered_tree) /\ t.selection = 0) =>
                  /\ last'.result = "PopState" /\ tree' = tree /\ filtered_tree' = None
            /\ pending_pattern' = pending_pattern
            /\ total_search_required' = total_search_required]_vars

\* back has dropped an overlay and selected in the base tree a line below the
\* root
C17_Witness ==
    /\ last.op = "back" /\ last.result = "Keep" /\ filtered_tree = None
    /\ IsSome(Unwrap(before).filtered_tree)
    /\ Unwrap(Unwrap(before).tree).selection = 0
    /\ Unwrap(tree).selection > 0
    /\ SelectedPath(Unwrap(tree)) = SelectedPath(Unwrap(Unwrap(before).filtered_tree))

\* C18: when back is applied to a state whose overlay selects a path that is
\* not a line of the base tree, the overlay is dropped and the selection and
\* the scroll of the base tree are left as they were.
C18_BackKeepsSelection ==
    [][(BackStep /\ IsSome(filtered_tree)
        /\ SelectedPath(Unwrap(filtered_tree)) \notin TreePaths(Unwrap(tree)))
          => (filtered_tree' = None /\ tree' = tree)]_vars

\* back has dropped an overlay without finding its selected path in the base
\* tree, whose selection was and stays below the root
C18_Witness ==
    /\ last.op = "back" /\ last.result = "Keep" /\ filtered_tree = None
    /\ IsSome(Unwrap(before).filtered_tree)
    /\ SelectedPath(Unwrap(Unwrap(before).filtered_tree))
         \notin TreePaths(Unwrap(Unwrap(before).tree))
    /\ Unwrap(tree).selection > 0
    /\ tree = Unwrap(before).tree

\* a step of the total_search intent that has an effect
TotalSearchStep ==
    /\ last'.op = "total_search"
    /\ <<pending_pattern, total_search_required, last, before>>'
         # <<pending_pattern, total_search_required, last, before>>

\* C19: total_search returns an error and leaves pending_pattern,
\* total_search_required and both trees unchanged when there is no overlay or
\* when the total_search flag of the overlay is already true; otherwise it sets
\* pending_pattern to the pattern of the overlay and total_search_required to
\* true, returns Keep and keeps the overlay displayed.
C19_TotalSearch ==
    [][TotalSearchStep =>
        IF ~IsSome(filtered_tree) \/ Unwrap(filtered_tree).total_search
        THEN /\ last'.result = "Error"
             /\ UNCHANGED <<pending_pattern, total_search_required, tree, filtered_tree>>
        ELSE /\ last'.result = "Keep"
             /\ pending_pattern' = Unwrap(filtered_tree).options.pattern
             /\ total_search_required' = TRUE
             /\ UNCHANGED <<tree, filtered_tree>>
             /\ DisplayedTree(State)' = Unwrap(filtered_tree)]_vars

\* total_search has been refused on an overlay whose search was total
C19_Witness ==
    /\ last.op = "total_search" /\ last.result = "Error"
    /\ IsSome(filtered_tree) /\ Unwrap(filtered_tree).total_search
    /\ ~total_search_required

\* a step in which do_pending_task is called
DoPendingTaskStep ==
    /\ Idle /\ last'.op = "do_pending_task"
    /\ <<state_vars, task, last, before>>' # <<state_vars, task, last, before>>

\* the git status of a tree, when there is a tree
GitStatusOf(t) == IF IsSome(t) THEN Unwrap(t).git_status ELSE "no tree"

PatternCallReturned ==
    /\ last.op = "do_pending_task"
    /\ last.result \in {"installed", "cancelled", "builder_error"}
    /\ PatternIsSome(Unwrap(before).pending_pattern)

\* C21: after a do_pending_task call that starts with a pending pattern,
\* total_search_required is false, whether the build succeeded, was cancelled,
\* or the builder could not be made.
C21_FlagConsumed == PatternCallReturned => ~total_search_required

\* the tree that was displayed when open_stay was called
DisplayedBefore == DisplayedTree(Unwrap(before))

DeepFilesKept == {i \in DOMAIN Unwrap(built).lines : Unwrap(built).lines[i].depth = 2}

\* the line of deep in the builder, once its parent is loaded
DeepKeptWhileNeeded ==
    (2 \in DOMAIN builder.blines /\ builder.blines[2].nb_kept_children > 0)
        => builder.blines[2].has_match

\* C23 (as amended): for a root that holds only a directory deep with more
\* equally scored files than fit, a build returns targeted_size lines: the
\* root, deep and targeted_size - 2 files (three for a targeted_size of 5);
\* and trimming never removes deep while it has kept children.
C23_TrimPreservesParents ==
    /\ DeepKeptWhileNeeded
    /\ pc = "done" =>
         /\ Len(Unwrap(built).lines) = DeepTargetedSize
         /\ Unwrap(built).lines[1].path = 1 /\ Unwrap(built).lines[2].path = 2
         /\ Cardinality(DeepFilesKept) = DeepTargetedSize - 2

\* C23 (as claimed): the build returns the root, deep and targeted_size - 1
\* files (four for a targeted_size of 5).
C23_FourFiles == pc = "done" => Cardinality(DeepFilesKept) = DeepTargetedSize - 1

\* the build has gathered all the files of deep and trimmed them down
C23_Witness ==
    /\ pc = "done" /\ Len(out_blines) = NbDeepFiles + 2
    /\ Cardinality(DeepFilesKept) = DeepTargetedSize - 2
    /\ builder.blines[2].nb_kept_children = DeepTargetedSize - 2

\* the directories of out_blines whose children are loaded
LoadedDirs ==
    {id \in Range(out_blines) : IsSome(builder.blines[id].children)}

\* C24: the dam is polled before each load of a next-level directory: a load
\* begins only after a poll that saw no event, the children of a directory
\* get loaded in the gather phase only by such a load, and an event stays.
\* So once the dam has an event no further directory is loaded, beyond the
\* one whose poll had passed; the first poll that sees the event ends the
\* build as cancelled, and neither trim_excess nor take runs after it.
C24_NoLoadAfterEvent ==
    [][/\ (pc' = "loading" /\ pc # "loading") => (pc = "deeper" /\ ~dam /\ ~dam')
       /\ (Gathering /\ pc # "start" /\ LoadedDirs' # LoadedDirs /\ out_blines' = out_blines)
            => (pc = "loading"
                /\ LoadedDirs' = LoadedDirs \cup {next_level_dirs[dir_idx]})
       /\ dam => dam'
       /\ (pc = "deeper" /\ dam /\ pc' # "deeper") => pc' = "cancelled"
       /\ pc = "cancelled" =>
            /\ pc' = "cancelled" /\ built' = None
            /\ count' = 0 /\ remove_queue' = <<>>
            /\ builder' = builder /\ out_blines' = out_blines]_vars

\* a build cancelled in the middle of a batch: a directory of the batch was
\* loaded, the poll before the next one saw the event, and the next one and
\* those after it are not loaded
C24_Witness ==
    /\ pc = "cancelled" /\ dam /\ dir_idx > 1
    /\ IsSome(builder.blines[next_level_dirs[dir_idx - 1]].children)
    /\ \A i \in dir_idx..Len(next_level_dirs) :
          ~IsSome(builder.blines[next_level_dirs[i]].children)
    /\ count = 0 /\ built = None

\* the directory a line of out_blines is a child of
ParentOf(id) == Unwrap(builder.blines[id].parent_id)

\* the positions up to n of out_blines that hold children of directory p
ChildrenUpTo(p, n) == {k \in 2..n : ParentOf(out_blines[k]) = p}

\* positions i < j of out_blines hold two consecutive children of a directory
ConsecutiveChildren(i, j) ==
    /\ i < j /\ ParentOf(out_blines[i]) = ParentOf(out_blines[j])
    /\ \A k \in (i + 1)..(j - 1) : ParentOf(out_blines[k]) # ParentOf(out_blines[i])

\* the directories that are open at the level of directory p, p left out
OpenWith(p) ==
    {q \in Range(out_blines) \ {p} :
       /\ builder.blines[q].depth = builder.blines[p].depth
       /\ CanEnter(builder.blines[q]) /\ IsSome(builder.blines[q].children)}

\* between two consecutive children of a directory, every other directory open
\* at that level gives one child if it has children left, and none otherwise
RoundRobin ==
    \A i, j \in 2..Len(out_blines) :
        ConsecutiveChildren(i, j) =>
            \A q \in OpenWith(ParentOf(out_blines[i])) :
                Cardinality(ChildrenUpTo(q, j - 1) \ ChildrenUpTo(q, i)) =
                    IF Cardinality(ChildrenUpTo(q, i)) < Len(Unwrap(builder.blines[q].children))
                    THEN 1 ELSE 0

\* C25: within one depth level the gather phase emits children round-robin
\* over the open directories: between two consecutive children of a directory
\* in out_blines every other open directory that has children left gives
\* exactly one child; and a directory leaves the queue only when its
\* children are exhausted.
C25_RoundRobin ==
    [][/\ RoundRobin'
       /\ \A q \in Range(open_dirs) \ Range(open_dirs') :
            /\ pc = "gather"
            /\ builder.blines[q].next_child_idx = Len(Unwrap(builder.blines[q].children))]_vars

\* two directories of one level have each given two children, in turn
C25_Witness ==
    \E i \in 2..(Len(out_blines) - 3) :
        /\ ConsecutiveChildren(i, i + 2)
        /\ ConsecutiveChildren(i + 1, i + 3)
        /\ pc = "done"

\* C26: when options.sort is set, the gather phase never goes deeper than the
\* first level: it loads the children of no directory but the root and every
\* line it emits, and so every line of the tree, has depth 0 or 1.
C26_SortShowsOneLevel ==
    builder.options.sort =>
        /\ pc \notin {"deeper", "loading", "cancelled"}
        /\ \A id \in Range(out_blines) : builder.blines[id].depth <= 1
        /\ pc # "done" => \A id \in DOMAIN builder.blines :
              IsSome(builder.blines[id].children) => id = builder.root_id
        /\ IsSome(built) => \A i \in DOMAIN Unwrap(built).lines :
                               Unwrap(built).lines[i].depth <= 1

\* a tree built in sort mode over a directory that holds entries which a
\* build not in sort mode would have gathered
C26_Witness ==
    /\ builder.options.sort /\ pc = "done" /\ total_search
    /\ \E i \in DOMAIN Unwrap(built).lines :
          /\ Unwrap(built).lines[i].depth = 1
          /\ Unwrap(built).lines[i].unlisted > 0

\* the step in which the loop of gather_lines is left by a break
LoopLeft == pc = "gather" /\ pc' = "gathered"

\* that break is the early exit, which alone clears self.total_search
EarlyExitTaken == LoopLeft /\ builder.total_search /\ ~builder'.total_search

\* that break is the one on BrootSearchLimit: a deeper level is there, and
\* the mode is not sort
LimitBreakTaken ==
    /\ LoopLeft /\ ~EarlyExitTaken
    /\ next_level_dirs # <<>> /\ ~builder.options.sort

\* the lines of out_blines that match, the root among them
NbMatching == 1 + Cardinality(MatchingLines(builder.blines, out_blines))

\* C27 (as amended): the early exit is taken only when total_search is false
\* and either nb_lines_ok > optimal_size, or nb_lines_ok >= targeted_size and
\* NOT_LONG has elapsed; the NOT_LONG delay never stops a build that has
\* fewer than targeted_size matching lines, and a total search never takes
\* the early exit.  Any other break is at the end of a level: in sort mode,
\* with nothing deeper, or once BrootSearchLimit has elapsed, whatever the
\* number of matching lines.
C27_EarlyExit ==
    [][LoopLeft =>
        IF EarlyExitTaken
        THEN /\ ~total_search
             /\ \/ nb_lines_ok > OptimalSize(builder)
                \/ nb_lines_ok >= builder.targeted_size /\ elapsed
             /\ nb_lines_ok <= OptimalSize(builder) => NbMatching >= builder.targeted_size
        ELSE /\ open_dirs = <<>>
             /\ builder.options.sort \/ next_level_dirs = <<>> \/ limit = "passed"]_vars

\* C27 (as claimed): a build never stops gathering because of elapsed time
\* while it has fewer than targeted_size matching lines.
C27_NeverShortOnTime ==
    [][((EarlyExitTaken /\ nb_lines_ok <= OptimalSize(builder)) \/ LimitBreakTaken)
         => NbMatching >= builder.targeted_size]_vars

\* a search has left the loop on NOT_LONG, with enough lines but fewer than
\* it looks for
C27_Witness ==
    /\ pc = "gathered" /\ elapsed /\ ~total_search /\ ~builder.total_search
    /\ builder.targeted_size > 1
    /\ nb_lines_ok >= builder.targeted_size /\ nb_lines_ok <= OptimalSize(builder)
    /\ open_dirs # <<>>

\* the directories whose entries load_children has been through
Loaded == {d \in DOMAIN builder.blines :
             IsSome(builder.blines[d].children) /\ ~builder.blines[d].has_error}

\* entry n passes the checks of make_line on its name, its being hidden, its
\* special handling and the gitignore rules
PassesChecks(n) ==
    /\ nodes[n].name # <<>>
    /\ builder.options.show_hidden \/ nodes[n].name[1] # 46
    /\ nodes[n].special # "Hide"
    /\ ~(builder.options.respect_git_ignore /\ nodes[n].ignored)

\* the git status filter leaves entry n its match
StatusOk(n) ==
    ~(builder.options.filter_by_git_status /\ builder.line_status_computer
      /\ ~nodes[n].interesting)

\* entry n of a loaded directory was made a line
IsLine(n) == n \in DOMAIN builder.blines

\* C28 (as amended): make_line retains a file or symlink entry that passes the
\* checks iff the pattern matches it (the empty pattern matches everything),
\* the git status filter does not discard it and only_folders is false; a
\* directory entry passing the checks is always retained, and until its
\* children are loaded its has_match is set only when it matches directly.
C28_MakeLine ==
    \A d \in Loaded : \A n \in Range(nodes[d].entries) :
        PassesChecks(n) =>
            IF nodes[n].kind \in {"file", "symlink"}
            THEN IsLine(n) <=> /\ DirectlyMatches(n) /\ StatusOk(n)
                               /\ ~builder.options.only_folders
            ELSE /\ IsLine(n)
                 /\ builder.blines[n].direct_match <=> DirectlyMatches(n)
                 /\ (builder.blines[n].children = None /\ builder.blines[n].has_match)
                       => builder.blines[n].direct_match

\* C28 (as claimed): a file or symlink entry that passes the checks is
\* retained iff the pattern matches it, or the pattern is empty and
\* only_folders is false.
C28_FileRetainedOnMatch ==
    \A d \in Loaded : \A n \in Range(nodes[d].entries) :
        (PassesChecks(n) /\ nodes[n].kind \in {"file", "symlink"} /\ StatusOk(n)) =>
            (IsLine(n) <=>
                \/ PatternIsSome(builder.options.pattern) /\ DirectlyMatches(n)
                \/ ~PatternIsSome(builder.options.pattern) /\ ~builder.options.only_folders)

\* a directory was loaded that holds a file the pattern matches and a file it
\* does not, and a directory it does not match: the first file is a line, the
\* second is not, the directory is
C28_Witness ==
    /\ PatternIsSome(builder.options.pattern) /\ ~builder.options.only_folders
    /\ \E d \in Loaded : \E m, n, k \in Range(nodes[d].entries) :
          /\ PassesChecks(m) /\ PassesChecks(n) /\ PassesChecks(k)
          /\ nodes[m].kind = "file" /\ DirectlyMatches(m) /\ IsLine(m)
          /\ nodes[n].kind = "file" /\ ~DirectlyMatches(n) /\ ~IsLine(n)
          /\ nodes[k].kind = "dir" /\ ~DirectlyMatches(k) /\ IsLine(k)
          /\ ~builder.blines[k].has_match

\* the lines of out_blines, the root among them, that match
NbMatchingLines == Cardinality({i \in DOMAIN out_blines : builder.blines[out_blines[i]].has_match})

\* the lines after the root that trim_excess calls removable
RemovableLines ==
    {id \in Range(Tail(out_blines)) : Removable(builder, builder.blines[id])}

\* C29: whenever trim_excess clears has_match of a line, that line has no
\* kept children and no currently removable line has a strictly lower score;
\* and it clears no line once the number of matching lines in out_blines is
\* at most targeted_size or no removable line remains.
C29_TrimWorstFirst ==
    [][\A id \in DOMAIN builder.blines :
         (pc = "trim" /\ builder.blines[id].has_match /\ ~builder'.blines[id].has_match) =>
            /\ builder.blines[id].nb_kept_children = 0
            /\ \A o \in RemovableLines :
                   builder.blines[o].score >= builder.blines[id].score
            /\ NbMatchingLines > builder.targeted_size
            /\ RemovableLines # {}]_vars

\* C30: throughout the gather phase nb_lines_ok equals the number of lines in
\* out_blines whose has_match is true.
C30_CountsMatchingLines ==
    pc \in {"gather", "deeper", "loading", "gathered"} => nb_lines_ok = NbMatchingLines

\* the children of directory d that are kept as lines of the tree
KeptChildren(d) ==
    {c \in Range(Unwrap(builder.blines[d].children)) :
        c \in Range(out_blines) /\ builder.blines[c].has_match}

\* the directories kept as lines whose children were loaded
KeptLoadedDirs ==
    {d \in Range(out_blines) :
        /\ builder.blines[d].has_match /\ builder.blines[d].file_type = "dir"
        /\ IsSome(builder.blines[d].children)}

\* C31: after trimming, for every kept directory whose children were loaded,
\* next_child_idx equals the number of its children that are kept as lines of
\* the tree.
C31_UnlistedAccurate ==
    pc \in {"take", "done"} =>
        \A d \in KeptLoadedDirs :
            builder.blines[d].next_child_idx = Cardinality(KeptChildren(d))

\* C32: trim_excess never fails and never has the root on its removal queue;
\* only lines that are removable matches are on the queue, and no decrement
\* goes below zero (parent_id.unwrap() never meets None).
C32_TrimSafe ==
    /\ pc # "panic"
    /\ pc = "trim" =>
          \A i \in DOMAIN remove_queue :
              /\ remove_queue[i] # builder.root_id
              /\ Removable(builder, builder.blines[remove_queue[i]])

\* C33: the base tree is built with an empty pattern and any overlay with a
\* non-empty one: new builds without the pattern of its options, with
\* filtered_tree = None and total_search_required = false, and
\* do_pending_task only builds a non-empty pending pattern.
C33_PatternsOfTrees ==
    /\ IsSome(tree) => ~PatternIsSome(Unwrap(tree).options.pattern)
    /\ IsSome(filtered_tree) => PatternIsSome(Unwrap(filtered_tree).options.pattern)
    /\ task = "new" =>
          /\ ~PatternIsSome(builder.options.pattern)
          /\ filtered_tree = None /\ ~total_search_required
    /\ last.op = "new" => filtered_tree = None /\ ~total_search_required
    /\ task = "search" =>
          /\ PatternIsSome(builder.options.pattern)
          /\ builder.options.pattern = last.arg

\* the pattern new was given is pending after it, and the first call of
\* do_pending_task has made an overlay of it over the base tree
C33_Witness ==
    /\ last.op = "do_pending_task" /\ last.result = "installed"
    /\ IsSome(before) /\ Unwrap(before).filtered_tree = None
    /\ IsSome(tree) /\ IsSome(filtered_tree)
    /\ Unwrap(filtered_tree).options.pattern = Unwrap(before).pending_pattern
    /\ ~PatternIsSome(Unwrap(tree).options.pattern)

\* C34: a build is run in total-search mode only for the pattern of the
\* overlay on which the total_search intent was accepted.
C34_TotalOnlyForAccepted ==
    (task = "search" /\ total_search) => total_for = Some(builder.options.pattern)

\* C35: after a back intent has dropped the overlay, the displayed tree stays
\* the base tree until a new on_pattern or total_search intent is received.
C35_BackIsFinal == dropped => filtered_tree = None

\* C36: the task reported by get_pending_task is the task the next
\* do_pending_task call performs: "searching" iff it builds the pending
\* pattern, "computing git status" iff it computes the git status, "computing
\* stats" iff it computes directory sums, and none iff it has no work to do.
C36_ReportedIsPerformed ==
    [][DoPendingTaskStep =>
        LET reported == GetPendingTask(State)
        IN  /\ reported = Some("searching")
                <=> last'.result \in {"running", "builder_error"}
            /\ reported = Some("computing git status") <=> last'.result = "git_status"
            /\ reported = Some("computing stats") <=> last'.result = "sums"
            /\ reported = None <=> last'.result = "other"]_vars

\* C37: the ESC key is resolved in a fixed order, whether or not it is the key
\* of a verb: if a tab cycle is in progress the input is restored to its
\* content before the cycle and a raw command for that content is returned;
\* else if the app is modal and the mode is Input, mode_command is returned
\* and the input is unchanged; else the input is cleared and back is
\* returned.  In all three cases tab_cycle_count is 0 and input_before_cycle
\* is None afterwards.
C37_EscOrder ==
    returned.event = "ESC" =>
        /\ tab_cycle_count = 0 /\ input_before_cycle = None
        /\ IF IsSome(returned.before_cycle)
           THEN /\ returned.cmd = "from_raw"
                /\ returned.raw = Unwrap(returned.before_cycle)
                /\ input_field = Unwrap(returned.before_cycle)
           ELSE IF returned.modal /\ returned.mode = "Input"
           THEN returned.cmd = "mode_command" /\ input_field = returned.content
           ELSE returned.cmd = "back" /\ input_field = <<>>

\* ESC has ended a cycle of several TAB keys in the insertion mode of a modal
\* app: the input is what it was before the cycle, not what the cycle made it
C37_Witness ==
    /\ returned.event = "ESC" /\ returned.modal /\ returned.mode = "Input"
    /\ returned.verb_key
    /\ returned.count > 1 /\ IsSome(returned.before_cycle)
    /\ returned.content # Unwrap(returned.before_cycle)
    /\ input_field = Unwrap(returned.before_cycle)

\* C38: with a verb invocation in the input and a list of n > 1 completions,
\* the k-th consecutive TAB key sets the input to the content it had before
\* the first TAB followed by completion number (k-1) mod n; any other key
\* ends the cycle.
C38_TabCycle ==
    /\ (run.k > 0 /\ run.steady) =>
          input_field = run.base \o run.list[((run.k - 1) % Len(run.list)) + 1]
    /\ returned.event \in {"ESC", "Char", "DelCharLeft", "Enter"} =>
          tab_cycle_count = 0 /\ input_before_cycle = None

\* the completions of a list have all been gone through and the first one is
\* in the input again
C38_Witness ==
    /\ returned.event = "TAB" /\ run.steady
    /\ Len(run.list) > 2 /\ run.k = Len(run.list) + 1
    /\ input_field = run.base \o run.list[1]
    /\ returned.content = run.base \o run.list[Len(run.list)]

\* C39: after any sequence of events, input_before_cycle is Some if and only
\* if tab_cycle_count > 0.
C39_CycleFields == IsSome(input_before_cycle) <=> tab_cycle_count > 0

====
